---- MODULE Spec2Model ----
(***************************************************************************)
(* moduleToFunction of estree-util-module-to-function: the rewrite of an   *)
(* ECMAScript module tree into the body of an async function.              *)
(*                                                                         *)
(* A node is a record with the ESTree field names; a field holding null is *)
(* the record Null.  A Literal is a string literal (field value), a        *)
(* number literal (field number) or the null literal (field null).         *)
(***************************************************************************)
EXTENDS Integers, Sequences, FiniteSets, TLC

\* The longest module body the model builds.
MaxStmts == 3

----------------------------------------------------------------------------
(* ESTree node shapes *)

Null == [type |-> "Null"]

Identifier(name) == [type |-> "Identifier", name |-> name]

StringLiteral(value) == [type |-> "Literal", value |-> value]

\* A string literal as the parser gives it, with its source text.
RawLiteral(value, raw) == [type |-> "Literal", value |-> value, raw |-> raw]

NumberLiteral(number) == [type |-> "Literal", number |-> number]

NullLiteral == [type |-> "Literal", null |-> TRUE]

IsString(node, value) ==
    node.type = "Literal" /\ "value" \in DOMAIN node /\ node.value = value

Property(computed, shorthand, key, value) ==
    [type |-> "Property", computed |-> computed, method |-> FALSE,
     shorthand |-> shorthand, kind |-> "init", key |-> key, value |-> value]

MemberExpression(computed, object, property) ==
    [type |-> "MemberExpression", computed |-> computed, optional |-> FALSE,
     object |-> object, property |-> property]

CallExpression(callee, arguments) ==
    [type |-> "CallExpression", optional |-> FALSE, callee |-> callee,
     arguments |-> arguments]

ImportExpression(source, options) ==
    [type |-> "ImportExpression", source |-> source, options |-> options]

MetaProperty(meta, property) ==
    [type |-> "MetaProperty", meta |-> Identifier(meta),
     property |-> Identifier(property)]

ObjectExpression(properties) ==
    [type |-> "ObjectExpression", properties |-> properties]

ExpressionStatement(expression) ==
    [type |-> "ExpressionStatement", expression |-> expression]

VariableDeclarator(id, init) ==
    [type |-> "VariableDeclarator", id |-> id, init |-> init]

VariableDeclaration(declarations) ==
    [type |-> "VariableDeclaration", kind |-> "const",
     declarations |-> declarations]

AwaitExpression(argument) == [type |-> "AwaitExpression", argument |-> argument]

SpreadElement(argument) == [type |-> "SpreadElement", argument |-> argument]

RestElement(argument) == [type |-> "RestElement", argument |-> argument]

ObjectPattern(properties) == [type |-> "ObjectPattern", properties |-> properties]

ArrayPattern(elements) == [type |-> "ArrayPattern", elements |-> elements]

AssignmentPattern(left, right) ==
    [type |-> "AssignmentPattern", left |-> left, right |-> right]

BlockStatement(body) == [type |-> "BlockStatement", body |-> body]

FunctionDeclaration(id, body) ==
    [type |-> "FunctionDeclaration", id |-> id, params |-> <<>>,
     body |-> BlockStatement(body)]

ClassDeclaration(id) ==
    [type |-> "ClassDeclaration", id |-> id, superClass |-> Null,
     body |-> [type |-> "ClassBody", body |-> <<>>]]

ImportAttribute(key, value) ==
    [type |-> "ImportAttribute", key |-> Identifier(key),
     value |-> StringLiteral(value)]

ImportDeclaration(specifiers, source, attributes) ==
    [type |-> "ImportDeclaration", specifiers |-> specifiers,
     source |-> StringLiteral(source), attributes |-> attributes]

ImportDefaultSpecifier(local) ==
    [type |-> "ImportDefaultSpecifier", local |-> Identifier(local)]

ImportNamespaceSpecifier(local) ==
    [type |-> "ImportNamespaceSpecifier", local |-> Identifier(local)]

ImportSpecifier(imported, local) ==
    [type |-> "ImportSpecifier", imported |-> imported, local |-> Identifier(local)]

ExportSpecifier(local, exported) ==
    [type |-> "ExportSpecifier", local |-> local, exported |-> exported]

ExportNamedDeclaration(declaration, specifiers, source, attributes) ==
    [type |-> "ExportNamedDeclaration", declaration |-> declaration,
     specifiers |-> specifiers, source |-> source, attributes |-> attributes]

ExportDefaultDeclaration(declaration) ==
    [type |-> "ExportDefaultDeclaration", declaration |-> declaration]

ExportAllDeclaration(exported, source, attributes) ==
    [type |-> "ExportAllDeclaration", exported |-> exported,
     source |-> StringLiteral(source), attributes |-> attributes]

----------------------------------------------------------------------------
(* The tree walker: for (key in node), every value that is a node or an    *)
(* array of nodes, in the order the keys were set.                         *)

Key(key) == [key |-> key, array |-> FALSE]
Keys(key) == [key |-> key, array |-> TRUE]

ChildKeys(type) ==
    CASE type = "Program" -> <<Keys("body")>>
      [] type = "ExpressionStatement" -> <<Key("expression")>>
      [] type = "BlockStatement" -> <<Keys("body")>>
      [] type = "ClassBody" -> <<Keys("body")>>
      [] type = "FunctionDeclaration" -> <<Key("id"), Keys("params"), Key("body")>>
      [] type = "ClassDeclaration" -> <<Key("id"), Key("superClass"), Key("body")>>
      [] type = "VariableDeclaration" -> <<Keys("declarations")>>
      [] type = "VariableDeclarator" -> <<Key("id"), Key("init")>>
      [] type = "ObjectPattern" -> <<Keys("properties")>>
      [] type = "ArrayPattern" -> <<Keys("elements")>>
      [] type = "RestElement" -> <<Key("argument")>>
      [] type = "AssignmentPattern" -> <<Key("left"), Key("right")>>
      [] type = "Property" -> <<Key("key"), Key("value")>>
      [] type = "ObjectExpression" -> <<Keys("properties")>>
      [] type = "ArrayExpression" -> <<Keys("elements")>>
      [] type = "SpreadElement" -> <<Key("argument")>>
      [] type = "CallExpression" -> <<Key("callee"), Keys("arguments")>>
      [] type = "MemberExpression" -> <<Key("object"), Key("property")>>
      [] type = "ImportExpression" -> <<Key("source"), Key("options")>>
      [] type = "MetaProperty" -> <<Key("meta"), Key("property")>>
      [] type = "AwaitExpression" -> <<Key("argument")>>
      [] type = "ReturnStatement" -> <<Key("argument")>>
      [] type = "ArrowFunctionExpression" -> <<Keys("params"), Key("body")>>
      [] type = "ImportDeclaration" ->
            <<Keys("specifiers"), Key("source"), Keys("attributes")>>
      [] type = "ImportSpecifier" -> <<Key("imported"), Key("local")>>
      [] type = "ImportDefaultSpecifier" -> <<Key("local")>>
      [] type = "ImportNamespaceSpecifier" -> <<Key("local")>>
      [] type = "ImportAttribute" -> <<Key("key"), Key("value")>>
      [] type = "ExportNamedDeclaration" ->
            <<Key("declaration"), Keys("specifiers"), Key("source"),
              Keys("attributes")>>
      [] type = "ExportSpecifier" -> <<Key("local"), Key("exported")>>
      [] type = "ExportDefaultDeclaration" -> <<Key("declaration")>>
      [] type = "ExportAllDeclaration" ->
            <<Key("exported"), Key("source"), Keys("attributes")>>
      [] OTHER -> <<>>

\* Every node of the tree under `node`, the node itself first, in the
\* walker's order.
RECURSIVE Nodes(_), NodesOfKeys(_, _), NodesOfList(_)
Nodes(node) ==
    IF node = Null THEN <<>>
    ELSE <<node>> \o NodesOfKeys(node, ChildKeys(node.type))
NodesOfKeys(node, keys) ==
    IF keys = <<>> THEN <<>>
    ELSE (IF Head(keys).array THEN NodesOfList(node[Head(keys).key])
          ELSE Nodes(node[Head(keys).key]))
         \o NodesOfKeys(node, Tail(keys))
NodesOfList(nodes) ==
    IF nodes = <<>> THEN <<>> ELSE Nodes(Head(nodes)) \o NodesOfList(Tail(nodes))

----------------------------------------------------------------------------
(* The helpers of moduleToFunction *)

convertImportAttributes(attributes) ==
    ObjectExpression(<<
        Property(FALSE, FALSE, Identifier("with"),
            ObjectExpression(
                [n \in 1..Len(attributes) |->
                    Property(FALSE, FALSE, attributes[n].key, attributes[n].value)]))
    >>)
\* Mutant: the options of the import expression are dropped.
convertImportExpressionSourceOnly(node, importName) ==
    CallExpression(Identifier(importName), <<node.source>>)

convertImportExpression(node, importName) ==
    CallExpression(Identifier(importName),
        IF node.options # Null THEN <<node.source, node.options>>
        ELSE <<node.source>>)

convertMetaProperty(node, importName) ==
    MemberExpression(FALSE, Identifier(importName), node.property)

\* The names the generator yields, in order.
RECURSIVE findExportDeclarations(_), findInList(_)
findExportDeclarations(node) ==
    CASE node.type = "Identifier" -> <<node.name>>
      [] node.type = "ObjectPattern" ->
            findInList([n \in 1..Len(node.properties) |->
                IF node.properties[n].type = "RestElement"
                THEN node.properties[n].argument
                ELSE node.properties[n].value])
      [] node.type = "ArrayPattern" ->
            findInList([n \in 1..Len(node.elements) |->
                IF node.elements[n] = Null THEN Null
                ELSE IF node.elements[n].type = "RestElement"
                THEN node.elements[n].argument
                ELSE node.elements[n]])
      [] OTHER -> <<>>
findInList(nodes) ==
    IF nodes = <<>> THEN <<>>
    ELSE (IF Head(nodes) = Null THEN <<>> ELSE findExportDeclarations(Head(nodes)))
         \o findInList(Tail(nodes))
\* Mutant: no property is shorthand.
isShorthandNever(a, b) == FALSE
\* Mutant: shorthand whenever the key is an identifier.
isShorthandByKey(a, b) == a.type = "Identifier"

isShorthand(a, b) ==
    a.type = "Identifier" /\ b.type = "Identifier" /\ a.name = b.name
\* Mutant: no special case for __proto__.
createPropertyPlain(key, value) ==
    Property(FALSE, isShorthand(key, value), key, value)

createProperty(key, value) ==
    LET computed == IF key.type = "Literal" THEN IsString(key, "__proto__")
                    ELSE key.name = "__proto__"
        newKey == IF key.type # "Literal" /\ key.name = "__proto__"
                  THEN StringLiteral("__proto__") ELSE key
    IN  Property(computed, ~computed /\ isShorthand(newKey, value), newKey, value)

extractExportNames(declaration) ==
    IF declaration.type = "VariableDeclaration"
    THEN LET names == findInList([n \in 1..Len(declaration.declarations) |->
                                    declaration.declarations[n].id])
         IN  [n \in 1..Len(names) |->
                createProperty(Identifier(names[n]), Identifier(names[n]))]
    ELSE <<createProperty(Identifier(declaration.id.name),
                          Identifier(declaration.id.name))>>

\* Mutant: the import name is not used; always a native import expression.
esmDeclarationToNativeImport(node, importName) ==
    ImportExpression(node.source,
        IF Len(node.attributes) > 0
        THEN ObjectExpression(<<
                Property(FALSE, FALSE, Identifier("with"),
                         convertImportAttributes(node.attributes))>>)
        ELSE Null)

\* Mutant: always a call, also when no import name is given.
esmDeclarationToCall(node, importName) ==
    CallExpression(Identifier(importName),
        IF Len(node.attributes) > 0
        THEN <<node.source,
               ObjectExpression(<<
                    Property(FALSE, FALSE, Identifier("with"),
                             convertImportAttributes(node.attributes))>>)>>
        ELSE <<node.source>>)

esmDeclarationToExpression(node, importName) ==
    LET options ==
            IF Len(node.attributes) > 0
            THEN ObjectExpression(<<
                    Property(FALSE, FALSE, Identifier("with"),
                             convertImportAttributes(node.attributes))>>)
            ELSE Null
    IN  IF importName # ""
        THEN CallExpression(Identifier(importName),
                IF options # Null THEN <<node.source, options>>
                ELSE <<node.source>>)
        ELSE ImportExpression(node.source, options)

\* Mutant: the references are left as they are.
singularImportUnchanged(entry, type) == entry

\* toPatch holds references to nodes that live inside `exports`: an element
\* [type, at] is the Property or SpreadElement exports[at] itself, or, for
\* type MemberExpression, the member expression that is the value of
\* exports[at].  singularImport mutates the node referred to, so the entry
\* of `exports` changes.
singularImport(entry, type) ==
    CASE type = "MemberExpression" ->
            IF entry.value.object.type = "MemberExpression"
            THEN [entry EXCEPT !.value.object = entry.value.object.object]
            ELSE entry
      [] type = "Property" ->
            IF entry.value.type = "MemberExpression"
               /\ entry.value.object.type = "Identifier"
            THEN [entry EXCEPT !.value = entry.value.object]
            ELSE entry
      [] type = "SpreadElement" ->
            IF entry.argument.type = "MemberExpression"
               /\ entry.argument.object.type = "Identifier"
            THEN [entry EXCEPT !.argument = entry.argument.object]
            ELSE entry

\* The walk below a node: enter() on each node in turn; a node enter()
\* replaced is not entered again, its children are.  `found` lists the
\* 'use strict' statements met, in order; each is removed from its array.
RECURSIVE visit(_, _), visitKeys(_, _, _), visitList(_, _)
visit(node, importName) ==
    IF node.type = "ExpressionStatement" /\ IsString(node.expression, "use strict")
    THEN [node |-> node, removed |-> TRUE, found |-> <<node>>]
    ELSE LET entered ==
                IF node.type = "ImportExpression" /\ importName # ""
                THEN convertImportExpression(node, importName)
                ELSE IF node.type = "MetaProperty" /\ importName # ""
                THEN convertMetaProperty(node, importName)
                ELSE node
             below == visitKeys(entered, ChildKeys(entered.type), importName)
         IN  [node |-> below.node, removed |-> FALSE, found |-> below.found]
visitKeys(node, keys, importName) ==
    IF keys = <<>> THEN [node |-> node, found |-> <<>>]
    ELSE LET key == Head(keys).key
             first ==
                IF Head(keys).array
                THEN LET r == visitList(node[key], importName)
                     IN  [node |-> [node EXCEPT ![key] = r.nodes], found |-> r.found]
                ELSE IF node[key] = Null THEN [node |-> node, found |-> <<>>]
                ELSE LET r == visit(node[key], importName)
                     IN  [node |-> [node EXCEPT ![key] = IF r.removed THEN Null ELSE r.node],
                          found |-> r.found]
             rest == visitKeys(first.node, Tail(keys), importName)
         IN  [node |-> rest.node, found |-> first.found \o rest.found]
visitList(nodes, importName) ==
    IF nodes = <<>> THEN [nodes |-> <<>>, found |-> <<>>]
    ELSE LET first == IF Head(nodes) = Null
                      THEN [node |-> Null, removed |-> FALSE, found |-> <<>>]
                      ELSE visit(Head(nodes), importName)
             rest == visitList(Tail(nodes), importName)
         IN  [nodes |-> (IF first.removed THEN <<>> ELSE <<first.node>>) \o rest.nodes,
              found |-> first.found \o rest.found]

----------------------------------------------------------------------------
(* The input modules: statements a parser gives for module source text *)

UseStrict(raw) == ExpressionStatement(RawLiteral("use strict", raw))

NoAttributes == <<>>

Statements == {
    \* import d from 'a'
    ImportDeclaration(<<ImportDefaultSpecifier("d")>>, "a", NoAttributes),
    \* import { x, y as z } from 'b' with { type: 'json' }
    ImportDeclaration(<<ImportSpecifier(Identifier("x"), "x"),
                        ImportSpecifier(Identifier("y"), "z")>>, "b",
                      <<ImportAttribute("type", "json")>>),
    \* import * as ns from 'c'
    ImportDeclaration(<<ImportNamespaceSpecifier("ns")>>, "c", NoAttributes),
    \* import 'd'
    ImportDeclaration(<<>>, "d", NoAttributes),
    \* export { a, b as c }
    ExportNamedDeclaration(Null,
        <<ExportSpecifier(Identifier("a"), Identifier("a")),
          ExportSpecifier(Identifier("b"), Identifier("c"))>>, Null, NoAttributes),
    \* export { m, default as n } from 'e' with { type: 'yaml' }
    ExportNamedDeclaration(Null,
        <<ExportSpecifier(Identifier("m"), Identifier("m")),
          ExportSpecifier(Identifier("default"), Identifier("n"))>>,
        StringLiteral("e"), <<ImportAttribute("type", "yaml")>>),
    \* export * as star from 'f'
    ExportAllDeclaration(Identifier("star"), "f", NoAttributes),
    \* export * from 'g'
    ExportAllDeclaration(Null, "g", NoAttributes),
    \* export default function () { "use strict"; import.meta }
    ExportDefaultDeclaration(
        FunctionDeclaration(Null,
            <<UseStrict("\"use strict\""),
              ExpressionStatement(MetaProperty("import", "meta"))>>)),
    \* export default import('h')
    ExportDefaultDeclaration(ImportExpression(StringLiteral("h"), Null)),
    \* export const v = import('i', { with: { type: 'json' } })
    ExportNamedDeclaration(
        VariableDeclaration(<<VariableDeclarator(Identifier("v"),
            ImportExpression(StringLiteral("i"),
                ObjectExpression(<<Property(FALSE, FALSE, Identifier("with"),
                    ObjectExpression(<<Property(FALSE, FALSE, Identifier("type"),
                                                StringLiteral("json"))>>))>>)))>>),
        <<>>, Null, NoAttributes),
    \* export const { p = 1, q } = o
    ExportNamedDeclaration(
        VariableDeclaration(<<VariableDeclarator(
            ObjectPattern(<<
                Property(FALSE, TRUE, Identifier("p"),
                         AssignmentPattern(Identifier("p"), NumberLiteral(1))),
                Property(FALSE, TRUE, Identifier("q"), Identifier("q"))>>),
            Identifier("o"))>>),
        <<>>, Null, NoAttributes),
    \* 'use strict'
    UseStrict("'use strict'"),
    \* import(import('j'))
    ExpressionStatement(
        ImportExpression(ImportExpression(StringLiteral("j"), Null), Null)),
    \* import.meta.url
    ExpressionStatement(
        MemberExpression(FALSE, MetaProperty("import", "meta"), Identifier("url"))),
    \* function f() { "use strict"; 'use strict' }
    FunctionDeclaration(Identifier("f"),
        <<UseStrict("\"use strict\""), UseStrict("'use strict'")>>)
}

\* A statement that binds or exports no name of its own may occur more than
\* once in one module.
Repeatable(statement) ==
    \/ statement.type = "ExpressionStatement"
    \/ statement.type = "ImportDeclaration" /\ statement.specifiers = <<>>
    \/ statement.type = "ExportAllDeclaration" /\ statement.exported = Null

\* The bodies of the modules: no binding is declared twice and there is at most
\* one default export.
Programs ==
    {program \in UNION {[1..n -> Statements] : n \in 0..MaxStmts} :
        \A m, n \in DOMAIN program :
            m # n =>
                /\ program[m] = program[n] => Repeatable(program[m])
                /\ ~(/\ program[m].type = "ExportDefaultDeclaration"
                     /\ program[n].type = "ExportDefaultDeclaration")}

ImportNames == {"", "customImport"}

----------------------------------------------------------------------------
(* The state of one call moduleToFunction(ast, { importName }) *)

VARIABLES
    input,              \* the body the caller passed in, as it was
    ast,                \* the Program, changed in place
    importName,         \* options.importName; "" when not given
    index,              \* the walker's position in ast.body
    directive,
    importAssignments,
    importExpressions,
    toPatch,
    exports,
    pc                  \* "walk", then "done" once the function has returned

vars == <<input, ast, importName, index, directive, importAssignments,
          importExpressions, toPatch, exports, pc>>

ProtoMarker == Property(FALSE, FALSE, Identifier("__proto__"), NullLiteral)

ToStringTagMarker ==
    Property(TRUE, FALSE,
        MemberExpression(FALSE, Identifier("Symbol"), Identifier("toStringTag")),
        StringLiteral("Module"))

\* Mutant: the two markers in the other order.
InitialExportsTagFirst == <<ToStringTagMarker, ProtoMarker>>

InitialExports == <<ProtoMarker, ToStringTagMarker>>

Init ==
    /\ input \in Programs
    /\ ast = [type |-> "Program", body |-> input]
    /\ importName \in ImportNames
    /\ index = 1
    /\ directive = Null
    /\ importAssignments = <<>>
    /\ importExpressions = <<>>
    /\ toPatch = <<>>
    /\ exports = InitialExports
    /\ pc = "walk"

Current == ast.body[index]

Walking == pc = "walk" /\ index <= Len(ast.body)

RemoveAt(seq, n) == SubSeq(seq, 1, n - 1) \o SubSeq(seq, n + 1, Len(seq))
\* Mutant: after this.remove() the walker moves on by one, past the
\* statement that took the place of the removed one.
RemoveAndAdvance ==
    /\ ast' = [ast EXCEPT !.body = RemoveAt(ast.body, index)]
    /\ index' = index + 1

\* this.remove(): the statement leaves the body and the walker stays at
\* the same index.
Remove ==
    /\ ast' = [ast EXCEPT !.body = RemoveAt(ast.body, index)]
    /\ index' = index

\* Mutant: this.replace(node) is forgotten; the walker goes through the
\* children of the statement that is still in place.
DescendWithoutReplace(node) ==
    LET below == visitKeys(Current, ChildKeys(Current.type), importName)
    IN  /\ ast' = [ast EXCEPT !.body[index] = below.node]
        /\ index' = index + 1
        /\ directive' = IF directive = Null /\ below.found # <<>>
                        THEN below.found[1] ELSE directive

\* this.replace(node), or no change: the walker then goes through the
\* children of the node now in place, and moves on.
ReplaceAndDescend(node) ==
    LET below == visitKeys(node, ChildKeys(node.type), importName)
    IN  /\ ast' = [ast EXCEPT !.body[index] = below.node]
        /\ index' = index + 1
        /\ directive' = IF directive = Null /\ below.found # <<>>
                        THEN below.found[1] ELSE directive

ModuleDeclarationTypes ==
    {"ImportDeclaration", "ExportDefaultDeclaration", "ExportNamedDeclaration",
     "ExportAllDeclaration"}

----------------------------------------------------------------------------
(* enter(node), one action for each case of its switch that a statement of *)
(* the body takes; the cases ImportExpression and MetaProperty are taken   *)
(* below the statements, in visit.                                         *)

\* Mutant: directive = node instead of directive ||= node.
EnterDirectiveLastWins ==
    /\ Walking
    /\ Current.type = "ExpressionStatement"
    /\ IsString(Current.expression, "use strict")
    /\ directive' = Current
    /\ Remove
    /\ UNCHANGED <<input, importName, importAssignments, importExpressions,
                   toPatch, exports, pc>>

\* case 'ExpressionStatement', for a 'use strict' literal
EnterDirective ==
    /\ Walking
    /\ Current.type = "ExpressionStatement"
    /\ IsString(Current.expression, "use strict")
    /\ directive' = IF directive = Null THEN Current ELSE directive
    /\ Remove
    /\ UNCHANGED <<input, importName, importAssignments, importExpressions,
                   toPatch, exports, pc>>
\* Mutant: a named specifier is never rendered shorthand.
ImportPropertyAliased(specifier) ==
    IF specifier.type = "ImportDefaultSpecifier"
    THEN Property(FALSE, FALSE, Identifier("default"), specifier.local)
    ELSE Property(FALSE, FALSE, specifier.imported, specifier.local)

ImportProperty(specifier) ==
    IF specifier.type = "ImportDefaultSpecifier"
    THEN Property(FALSE, FALSE, Identifier("default"), specifier.local)
    ELSE Property(FALSE, isShorthand(specifier.imported, specifier.local),
                  specifier.imported, specifier.local)
\* Mutant: every import declaration gets an object pattern, also one
\* without default and named specifiers.
ImportAssignmentAlwaysPattern(node) ==
    LET named == SelectSeq(node.specifiers,
                    LAMBDA s : s.type # "ImportNamespaceSpecifier")
    IN  ObjectPattern([n \in 1..Len(named) |-> ImportProperty(named[n])])

\* The binding pattern of an import declaration: what is pushed to
\* importAssignments.
ImportAssignment(node) ==
    LET named == SelectSeq(node.specifiers,
                    LAMBDA s : s.type # "ImportNamespaceSpecifier")
        stars == SelectSeq(node.specifiers,
                    LAMBDA s : s.type = "ImportNamespaceSpecifier")
        properties == [n \in 1..Len(named) |-> ImportProperty(named[n])]
        starIdentifier == IF stars = <<>> THEN Null ELSE stars[Len(stars)].local
    IN  IF Len(properties) > 0 THEN ObjectPattern(properties) ELSE starIdentifier
\* Mutant: an import declaration of a module already imported records no
\* import operation of its own.
EnterImportDeclarationMerging ==
    /\ Walking
    /\ Current.type = "ImportDeclaration"
    /\ LET seen == \E k \in 1..Len(importExpressions) :
                      importExpressions[k] =
                          esmDeclarationToExpression(Current, importName)
       IN  /\ importAssignments' =
                IF seen THEN importAssignments
                ELSE Append(importAssignments, ImportAssignment(Current))
           /\ importExpressions' =
                IF seen THEN importExpressions
                ELSE Append(importExpressions,
                            esmDeclarationToExpression(Current, importName))
    /\ Remove
    /\ UNCHANGED <<input, importName, directive, toPatch, exports, pc>>

\* case 'ImportDeclaration'
EnterImportDeclaration ==
    /\ Walking
    /\ Current.type = "ImportDeclaration"
    /\ importAssignments' = Append(importAssignments, ImportAssignment(Current))
    /\ importExpressions' =
            Append(importExpressions, esmDeclarationToExpression(Current, importName))
    /\ Remove
    /\ UNCHANGED <<input, importName, directive, toPatch, exports, pc>>
\* Mutant: a name for the default export that the module does not declare.
UnusedDefaultExportName == "__default_export__1"

DefaultExportName == "__default_export__"
\* Mutant: every default export becomes const __default_export__ = ...,
\* a function or class declaration included.
EnterExportDefaultDeclarationAsConst ==
    /\ Walking
    /\ Current.type = "ExportDefaultDeclaration"
    /\ ReplaceAndDescend(
            VariableDeclaration(<<
                VariableDeclarator(Identifier("__default_export__"),
                                   Current.declaration)>>))
    /\ exports' = Append(exports,
            createProperty(Identifier("default"), Identifier("__default_export__")))
    /\ UNCHANGED <<input, importName, importAssignments, importExpressions,
                   toPatch, pc>>

\* case 'ExportDefaultDeclaration'
EnterExportDefaultDeclaration ==
    /\ Walking
    /\ Current.type = "ExportDefaultDeclaration"
    /\ LET declaration == Current.declaration
       IN  IF declaration.type \in {"FunctionDeclaration", "ClassDeclaration"}
           THEN LET named == IF declaration.id = Null
                             THEN [declaration EXCEPT !.id = Identifier(DefaultExportName)]
                             ELSE declaration
                IN  /\ ReplaceAndDescend(named)
                    /\ exports' = Append(exports,
                            createProperty(Identifier("default"),
                                           Identifier(named.id.name)))
           ELSE /\ ReplaceAndDescend(
                        VariableDeclaration(<<
                            VariableDeclarator(Identifier(DefaultExportName),
                                               declaration)>>))
                /\ exports' = Append(exports,
                        createProperty(Identifier("default"),
                                       Identifier(DefaultExportName)))
    /\ UNCHANGED <<input, importName, importAssignments, importExpressions,
                   toPatch, pc>>

ImportsName == "_imports"

\* Mutant: every re-exported member reads the first slot.
ReExportMemberFirstSlot(specifier, n) ==
    LET local == IF specifier.local.type = "Identifier"
                    /\ specifier.local.name = "__proto__"
                 THEN StringLiteral("__proto__") ELSE specifier.local
    IN  MemberExpression(local.type = "Literal",
            MemberExpression(TRUE, Identifier(ImportsName), NumberLiteral(0)),
            local)
\* Mutant: the member is never read through a computed access.
ReExportMemberDot(specifier, n) ==
    MemberExpression(FALSE,
        MemberExpression(TRUE, Identifier("_imports"), NumberLiteral(n)),
        specifier.local)

\* The member expression a re-exported specifier reads, _imports[n].local
ReExportMember(specifier, n) ==
    LET local == IF specifier.local.type = "Identifier"
                    /\ specifier.local.name = "__proto__"
                 THEN StringLiteral("__proto__") ELSE specifier.local
    IN  MemberExpression(local.type = "Literal",
            MemberExpression(TRUE, Identifier(ImportsName), NumberLiteral(n)),
            local)

\* case 'ExportNamedDeclaration'
EnterExportNamedDeclaration ==
    /\ Walking
    /\ Current.type = "ExportNamedDeclaration"
    /\ LET node == Current
           specifiers == node.specifiers
       IN  IF node.declaration # Null
           THEN /\ exports' = exports \o extractExportNames(node.declaration)
                /\ ReplaceAndDescend(node.declaration)
                /\ UNCHANGED <<importAssignments, importExpressions, toPatch>>
           ELSE IF node.source = Null
           THEN /\ exports' = exports \o
                        [n \in 1..Len(specifiers) |->
                            createProperty(specifiers[n].exported, specifiers[n].local)]
                /\ Remove
                /\ UNCHANGED <<directive, importAssignments, importExpressions,
                               toPatch>>
           ELSE /\ exports' = exports \o
                        [n \in 1..Len(specifiers) |->
                            createProperty(specifiers[n].exported,
                                ReExportMember(specifiers[n], Len(importExpressions)))]
                /\ toPatch' = toPatch \o
                        [n \in 1..Len(specifiers) |->
                            [type |-> "MemberExpression", at |-> Len(exports) + n]]
                /\ importAssignments' = Append(importAssignments, Null)
                /\ importExpressions' = Append(importExpressions,
                        esmDeclarationToExpression(node, importName))
                /\ Remove
                /\ UNCHANGED directive
    /\ UNCHANGED <<input, importName, pc>>
\* Mutant: the import of a bare export * is not wrapped.
WithDefault(expression) == expression

\* expression.then(({ default: _, ...m }) => m)
WithoutDefault(expression) ==
    CallExpression(
        [type |-> "MemberExpression", object |-> expression,
         property |-> Identifier("then"), computed |-> FALSE, optional |-> FALSE],
        <<[type |-> "ArrowFunctionExpression", expression |-> TRUE,
           params |-> <<ObjectPattern(<<
                Property(FALSE, FALSE, Identifier("default"), Identifier("_")),
                RestElement(Identifier("m"))>>)>>,
           body |-> Identifier("m")]>>)

\* case 'ExportAllDeclaration'
EnterExportAllDeclaration ==
    /\ Walking
    /\ Current.type = "ExportAllDeclaration"
    /\ LET node == Current
           memberExpression ==
                MemberExpression(TRUE, Identifier(ImportsName),
                                 NumberLiteral(Len(importExpressions)))
           property == IF node.exported # Null
                       THEN createProperty(node.exported, memberExpression)
                       ELSE SpreadElement(memberExpression)
           esmExpression == esmDeclarationToExpression(node, importName)
       IN  /\ exports' = Append(exports, property)
           /\ toPatch' = Append(toPatch,
                    [type |-> property.type, at |-> Len(exports) + 1])
           /\ importAssignments' = Append(importAssignments, Null)
           /\ importExpressions' = Append(importExpressions,
                    IF node.exported # Null THEN esmExpression
                    ELSE WithoutDefault(esmExpression))
    /\ Remove
    /\ UNCHANGED <<input, importName, directive, pc>>

\* Any other statement: no case of the switch changes the statement itself,
\* and the walker goes through its children.
EnterNode ==
    /\ Walking
    /\ Current.type \notin ModuleDeclarationTypes
    /\ ~(Current.type = "ExpressionStatement"
         /\ IsString(Current.expression, "use strict"))
    /\ ReplaceAndDescend(Current)
    /\ UNCHANGED <<input, importName, importAssignments, importExpressions,
                   toPatch, exports, pc>>

----------------------------------------------------------------------------
(* After the walk *)

RECURSIVE patchAll(_, _)
patchAll(entries, refs) ==
    IF refs = <<>> THEN entries
    ELSE patchAll([entries EXCEPT ![Head(refs).at] =
                        singularImport(@, Head(refs).type)],
                  Tail(refs))
\* Mutant: no trailing position is removed.
popNothing(assignments) == assignments

\* while (importAssignments.length && !importAssignments.at(-1)) pop()
RECURSIVE popTrailing(_)
popTrailing(assignments) ==
    IF assignments # <<>> /\ assignments[Len(assignments)] = Null
    THEN popTrailing(SubSeq(assignments, 1, Len(assignments) - 1))
    ELSE assignments

PromiseAll(elements) ==
    CallExpression(MemberExpression(FALSE, Identifier("Promise"), Identifier("all")),
        <<[type |-> "ArrayExpression", elements |-> elements]>>)
\* Mutant: an import prologue is emitted also when no import operation was
\* recorded.
PrologueAlways(expressions, assignments, patches) ==
    <<ExpressionStatement(AwaitExpression(PromiseAll(expressions)))>>

\* The statements put in front of the body for the imports: none, or one.
Prologue(expressions, assignments, patches) ==
    IF Len(expressions) = 0 THEN <<>>
    ELSE LET importExpression == IF Len(expressions) = 1 THEN expressions[1]
                                 ELSE PromiseAll(expressions)
             importAssignment == IF Len(expressions) = 1 THEN assignments[1]
                                 ELSE ArrayPattern(popTrailing(assignments))
             awaitExpression == AwaitExpression(importExpression)
         IN  IF Len(patches) > 0
             THEN <<VariableDeclaration(
                        <<VariableDeclarator(Identifier(ImportsName), awaitExpression)>>
                        \o (IF importAssignment # Null
                            THEN <<VariableDeclarator(importAssignment,
                                                      Identifier(ImportsName))>>
                            ELSE <<>>))>>
             ELSE IF importAssignment # Null
             THEN <<VariableDeclaration(
                        <<VariableDeclarator(importAssignment, awaitExpression)>>)>>
             ELSE <<ExpressionStatement(awaitExpression)>>

FreshDirective == ExpressionStatement(StringLiteral("use strict"))

ReturnStatement(properties) ==
    [type |-> "ReturnStatement", argument |-> ObjectExpression(properties)]
\* Mutant: the prologue is put after the statements of the body.
FinalizePrologueLast ==
    /\ pc = "walk"
    /\ index > Len(ast.body)
    /\ exports' = IF Len(importExpressions) = 1 THEN patchAll(exports, toPatch)
                  ELSE exports
    /\ importAssignments' = IF Len(importExpressions) > 1
                            THEN popTrailing(importAssignments)
                            ELSE importAssignments
    /\ ast' = [ast EXCEPT !.body =
                <<IF directive # Null THEN directive ELSE FreshDirective>>
                \o ast.body
                \o Prologue(importExpressions, importAssignments, toPatch)
                \o <<ReturnStatement(exports')>>]
    /\ pc' = "done"
    /\ UNCHANGED <<input, importName, index, directive, importExpressions, toPatch>>

\* The statements of moduleToFunction after walk() returns.
Finalize ==
    /\ pc = "walk"
    /\ index > Len(ast.body)
    /\ exports' = IF Len(importExpressions) = 1 THEN patchAll(exports, toPatch)
                  ELSE exports
    /\ importAssignments' = IF Len(importExpressions) > 1
                            THEN popTrailing(importAssignments)
                            ELSE importAssignments
    /\ ast' = [ast EXCEPT !.body =
                <<IF directive # Null THEN directive ELSE FreshDirective>>
                \o Prologue(importExpressions, importAssignments, toPatch)
                \o ast.body
                \o <<ReturnStatement(exports')>>]
    /\ pc' = "done"
    /\ UNCHANGED <<input, importName, index, directive, importExpressions, toPatch>>

Next ==
    \/ EnterDirective
    \/ EnterImportDeclaration
    \/ EnterExportDefaultDeclaration
    \/ EnterExportNamedDeclaration
    \/ EnterExportAllDeclaration
    \/ EnterNode
    \/ Finalize

Spec == Init /\ [][Next]_vars
\* A second family of input modules: the forms of bindings and of exported
\* names (default with named specifiers, string-literal names, __proto__,
\* named and anonymous default declarations, nested patterns).
BindingStatements == {
    \* import yaml, { parse as parseYAML, stringify } from 'yaml'
    ImportDeclaration(<<ImportDefaultSpecifier("yaml"),
                        ImportSpecifier(Identifier("parse"), "parseYAML"),
                        ImportSpecifier(Identifier("stringify"), "stringify")>>,
                      "yaml", NoAttributes),
    \* import { 'a-b' as ab } from 'k'
    ImportDeclaration(<<ImportSpecifier(StringLiteral("a-b"), "ab")>>, "k",
                      NoAttributes),
    \* import { __proto__ } from 'p'
    ImportDeclaration(<<ImportSpecifier(Identifier("__proto__"), "__proto__")>>,
                      "p", NoAttributes),
    \* export default function named() {}
    ExportDefaultDeclaration(FunctionDeclaration(Identifier("named"), <<>>)),
    \* export default class {}
    ExportDefaultDeclaration(ClassDeclaration(Null)),
    \* export default 1
    ExportDefaultDeclaration(NumberLiteral(1)),
    \* export function g() {}
    ExportNamedDeclaration(FunctionDeclaration(Identifier("g"), <<>>),
                           <<>>, Null, NoAttributes),
    \* export class K {}
    ExportNamedDeclaration(ClassDeclaration(Identifier("K")),
                           <<>>, Null, NoAttributes),
    \* export const [s, , [t], ...u] = arr, { k: { w }, ...r } = obj
    ExportNamedDeclaration(
        VariableDeclaration(<<
            VariableDeclarator(
                ArrayPattern(<<Identifier("s"), Null,
                               ArrayPattern(<<Identifier("t")>>),
                               RestElement(Identifier("u"))>>),
                Identifier("arr")),
            VariableDeclarator(
                ObjectPattern(<<
                    Property(FALSE, FALSE, Identifier("k"),
                        ObjectPattern(<<Property(FALSE, TRUE, Identifier("w"),
                                                 Identifier("w"))>>)),
                    RestElement(Identifier("r"))>>),
                Identifier("obj"))>>),
        <<>>, Null, NoAttributes),
    \* export const [e = 2] = o
    ExportNamedDeclaration(
        VariableDeclaration(<<VariableDeclarator(
            ArrayPattern(<<AssignmentPattern(Identifier("e"), NumberLiteral(2))>>),
            Identifier("o"))>>),
        <<>>, Null, NoAttributes),
    \* export { a, b as c, d as 'x-y', __proto__ }
    ExportNamedDeclaration(Null,
        <<ExportSpecifier(Identifier("a"), Identifier("a")),
          ExportSpecifier(Identifier("b"), Identifier("c")),
          ExportSpecifier(Identifier("d"), StringLiteral("x-y")),
          ExportSpecifier(Identifier("__proto__"), Identifier("__proto__"))>>,
        Null, NoAttributes),
    \* export const __proto__ = 1
    ExportNamedDeclaration(
        VariableDeclaration(<<VariableDeclarator(Identifier("__proto__"),
                                                 NumberLiteral(1))>>),
        <<>>, Null, NoAttributes),
    \* export { m, default as n, 's-t' as st, __proto__ as pr, x as '__proto__' }
    \*     from 'e'
    ExportNamedDeclaration(Null,
        <<ExportSpecifier(Identifier("m"), Identifier("m")),
          ExportSpecifier(Identifier("default"), Identifier("n")),
          ExportSpecifier(StringLiteral("s-t"), Identifier("st")),
          ExportSpecifier(Identifier("__proto__"), Identifier("pr")),
          ExportSpecifier(Identifier("x"), StringLiteral("__proto__"))>>,
        StringLiteral("e"), NoAttributes),
    \* export * as __proto__ from 'n'
    ExportAllDeclaration(Identifier("__proto__"), "n", NoAttributes),
    \* 'use strict'
    UseStrict("'use strict'"),
    \* f()
    ExpressionStatement(CallExpression(Identifier("f"), <<>>))
}

BindingPrograms ==
    {program \in UNION {[1..n -> BindingStatements] : n \in 0..MaxStmts} :
        \A m, n \in DOMAIN program :
            m # n =>
                /\ program[m] = program[n] => Repeatable(program[m])
                /\ ~(/\ program[m].type = "ExportDefaultDeclaration"
                     /\ program[n].type = "ExportDefaultDeclaration")}

InitBindings ==
    /\ input \in BindingPrograms
    /\ ast = [type |-> "Program", body |-> input]
    /\ importName \in ImportNames
    /\ index = 1
    /\ directive = Null
    /\ importAssignments = <<>>
    /\ importExpressions = <<>>
    /\ toPatch = <<>>
    /\ exports = InitialExports
    /\ pc = "walk"

SpecBindings == InitBindings /\ [][Next]_vars
\* A third family of input modules: namespace and side-effect imports, a
\* default specifier with a namespace specifier, new.target, and top-level
\* bindings with the names the rewrite synthesizes.
NameStatements == {
    \* import def, * as ns from 'm'
    ImportDeclaration(<<ImportDefaultSpecifier("def"),
                        ImportNamespaceSpecifier("ns")>>, "m", NoAttributes),
    \* import { x, y as z } from 'b'
    ImportDeclaration(<<ImportSpecifier(Identifier("x"), "x"),
                        ImportSpecifier(Identifier("y"), "z")>>, "b", NoAttributes),
    \* import * as w from 'c'
    ImportDeclaration(<<ImportNamespaceSpecifier("w")>>, "c", NoAttributes),
    \* import 'd'
    ImportDeclaration(<<>>, "d", NoAttributes),
    \* function h() { new.target; import.meta }
    FunctionDeclaration(Identifier("h"),
        <<ExpressionStatement(MetaProperty("new", "target")),
          ExpressionStatement(MetaProperty("import", "meta"))>>),
    \* const __default_export__ = 0
    VariableDeclaration(<<VariableDeclarator(Identifier("__default_export__"),
                                             NumberLiteral(0))>>),
    \* export default 1
    ExportDefaultDeclaration(NumberLiteral(1)),
    \* const _imports = 0
    VariableDeclaration(<<VariableDeclarator(Identifier("_imports"),
                                             NumberLiteral(0))>>),
    \* export { r } from 'e'
    ExportNamedDeclaration(Null,
        <<ExportSpecifier(Identifier("r"), Identifier("r"))>>,
        StringLiteral("e"), NoAttributes),
    \* export * from 'g'
    ExportAllDeclaration(Null, "g", NoAttributes),
    \* 'use strict'
    UseStrict("'use strict'")
}

NamePrograms ==
    {program \in UNION {[1..n -> NameStatements] : n \in 0..MaxStmts} :
        \A m, n \in DOMAIN program :
            m # n =>
                /\ program[m] = program[n] => Repeatable(program[m])
                /\ ~(/\ program[m].type = "ExportDefaultDeclaration"
                     /\ program[n].type = "ExportDefaultDeclaration")}

InitNames ==
    /\ input \in NamePrograms
    /\ ast = [type |-> "Program", body |-> input]
    /\ importName \in ImportNames
    /\ index = 1
    /\ directive = Null
    /\ importAssignments = <<>>
    /\ importExpressions = <<>>
    /\ toPatch = <<>>
    /\ exports = InitialExports
    /\ pc = "walk"

SpecNames == InitNames /\ [][Next]_vars

Done == pc = "done"

----------------------------------------------------------------------------
(* Reading the input module and the output body *)

IsImportOperation(statement) ==
    CASE statement.type = "ImportDeclaration" -> TRUE
      [] statement.type = "ExportAllDeclaration" -> TRUE
      [] statement.type = "ExportNamedDeclaration" -> statement.source # Null
      [] OTHER -> FALSE

\* The import operations of the module, in source order.
ImportOperations == SelectSeq(input, IsImportOperation)

IsUseStrict(node) ==
    node.type = "ExpressionStatement" /\ IsString(node.expression, "use strict")

InputNodes == NodesOfList(input)

OutputNodes == Nodes(ast)

Types(nodes) == {nodes[n].type : n \in 1..Len(nodes)}

TypeCount(nodes, type) == Len(SelectSeq(nodes, LAMBDA n : n.type = type))

\* The output body is: directive, prologue (when there are import
\* operations), the statements left of the original body, return.
OutPrologue == IF Len(ImportOperations) > 0 THEN <<ast.body[2]>> ELSE <<>>

OutMiddle == SubSeq(ast.body, 2 + Len(OutPrologue), Len(ast.body) - 1)

OutReturn == ast.body[Len(ast.body)]

\* The statements of the input that are not removed by the walk.
IsKept(statement) ==
    CASE statement.type = "ImportDeclaration" -> FALSE
      [] statement.type = "ExportAllDeclaration" -> FALSE
      [] statement.type = "ExportNamedDeclaration" -> statement.declaration # Null
      [] OTHER -> ~IsUseStrict(statement)

KeptInput == SelectSeq(input, IsKept)

PlainDeclarationTypes ==
    {"FunctionDeclaration", "ClassDeclaration", "VariableDeclaration"}

----------------------------------------------------------------------------
(* C1: after the rewrite the tree holds no ImportDeclaration,              *)
(* ExportNamedDeclaration, ExportDefaultDeclaration or ExportAllDeclaration*)
(* node; import declarations, specifier-only exports and export-alls are   *)
(* removed, and an export with a declaration or an export default is       *)
(* replaced, at its own place, by a plain declaration.  During the walk    *)
(* this already holds of the statements the walker has passed.             *)
C1_NoModuleDeclarationLeft ==
    /\ pc = "walk" =>
          \A n \in 1..(index - 1) :
              Types(Nodes(ast.body[n])) \cap ModuleDeclarationTypes = {}
    /\ Done =>
          /\ Types(OutputNodes) \cap ModuleDeclarationTypes = {}
          /\ Len(OutMiddle) = Len(KeptInput)
          /\ \A n \in 1..Len(KeptInput) :
                IF KeptInput[n].type \in {"ExportNamedDeclaration",
                                          "ExportDefaultDeclaration"}
                THEN OutMiddle[n].type \in PlainDeclarationTypes
                ELSE OutMiddle[n].type = KeptInput[n].type

\* A module with an import declaration, an export default and an export
\* with a declaration has been rewritten.
C1_Witness ==
    /\ Done
    /\ \E n \in 1..Len(input) : input[n].type = "ImportDeclaration"
    /\ \E n \in 1..Len(input) : input[n].type = "ExportDefaultDeclaration"
    /\ \E n \in 1..Len(input) :
          input[n].type = "ExportNamedDeclaration" /\ input[n].declaration # Null

----------------------------------------------------------------------------
(* C4: the returned object literal begins with the two fixed markers, a    *)
(* non-computed __proto__: null and then a computed                        *)
(* [Symbol.toStringTag]: 'Module'; every export entry comes after them.    *)
(* The list of export entries begins with them in every state.             *)
IsProtoMarker(property) ==
    /\ property.type = "Property"
    /\ ~property.computed
    /\ property.key = [type |-> "Identifier", name |-> "__proto__"]
    /\ property.value = [type |-> "Literal", null |-> TRUE]

IsToStringTagMarker(property) ==
    /\ property.type = "Property"
    /\ property.computed
    /\ property.key.type = "MemberExpression"
    /\ ~property.key.computed
    /\ property.key.object = [type |-> "Identifier", name |-> "Symbol"]
    /\ property.key.property = [type |-> "Identifier", name |-> "toStringTag"]
    /\ property.value = [type |-> "Literal", value |-> "Module"]

C4_MarkersFirst ==
    /\ Len(exports) >= 2
    /\ IsProtoMarker(exports[1])
    /\ IsToStringTagMarker(exports[2])
    /\ \A n \in 3..Len(exports) :
          ~IsProtoMarker(exports[n]) /\ ~IsToStringTagMarker(exports[n])
    /\ Done =>
          /\ OutReturn.type = "ReturnStatement"
          /\ OutReturn.argument.type = "ObjectExpression"
          /\ OutReturn.argument.properties = exports

\* A module with exports, and with importName given, has been rewritten.
C4_Witness == Done /\ Len(exports) > 3 /\ importName # ""

----------------------------------------------------------------------------
(* C10: the first statement of the output is a 'use strict' expression     *)
(* statement and the output tree holds exactly one; every one met by the   *)
(* walk (at any depth) is removed from where it stood, the first one met   *)
(* is the node put at index 0, and a fresh one is made when the input had  *)
(* none.                                                                   *)
InputDirectives == SelectSeq(InputNodes, IsUseStrict)

C10_OneDirectiveFirst ==
    /\ pc = "walk" =>
          \A n \in 1..(index - 1) :
              SelectSeq(Nodes(ast.body[n]), IsUseStrict) = <<>>
    /\ Done =>
          /\ IsUseStrict(ast.body[1])
          /\ Len(SelectSeq(OutputNodes, IsUseStrict)) = 1
          /\ ast.body[1] = IF InputDirectives # <<>> THEN InputDirectives[1]
                           ELSE [type |-> "ExpressionStatement",
                                 expression |-> [type |-> "Literal",
                                                 value |-> "use strict"]]

\* The input held several 'use strict' statements with different source
\* text, the first of them inside a function.
C10_Witness ==
    /\ Done
    /\ Len(InputDirectives) >= 3
    /\ ~IsUseStrict(input[1])
    /\ InputDirectives[1] # InputDirectives[Len(InputDirectives)]

----------------------------------------------------------------------------
(* Reading the prologue and the returned object *)

\* The expression the prologue awaits.
PrologueAwaited ==
    LET statement == ast.body[2]
    IN  IF statement.type = "ExpressionStatement" THEN statement.expression.argument
        ELSE statement.declarations[1].init.argument

IsPromiseAll(expression) ==
    /\ expression.type = "CallExpression"
    /\ expression.callee.type = "MemberExpression"
    /\ expression.callee.object = [type |-> "Identifier", name |-> "Promise"]
    /\ expression.callee.property = [type |-> "Identifier", name |-> "all"]

\* The import operations of the prologue, in the order they are issued.
PrologueOperations ==
    IF IsPromiseAll(PrologueAwaited) THEN PrologueAwaited.arguments[1].elements
    ELSE <<PrologueAwaited>>

\* operation is  x.then(...)
IsThenCall(operation) ==
    /\ operation.type = "CallExpression"
    /\ operation.callee.type = "MemberExpression"
    /\ operation.callee.property = [type |-> "Identifier", name |-> "then"]

\* The import itself: import(...) or importName(...)
ImportOf(operation) ==
    IF IsThenCall(operation) THEN operation.callee.object ELSE operation

SourceOf(operation) ==
    LET import == ImportOf(operation)
    IN  IF import.type = "ImportExpression" THEN import.source
        ELSE import.arguments[1]

\* The second argument of the import, Null when it has none.
OptionsOf(operation) ==
    LET import == ImportOf(operation)
    IN  IF import.type = "ImportExpression" THEN import.options
        ELSE IF Len(import.arguments) > 1 THEN import.arguments[2] ELSE Null

NameOf(node) == IF node.type = "Identifier" THEN node.name ELSE node.value

\* The entries of the returned object after the two markers.
ReturnedEntries ==
    SubSeq(OutReturn.argument.properties, 3, Len(OutReturn.argument.properties))

\* The key an entry gives the returned object; "*" for a spread.
EntryName(entry) ==
    IF entry.type = "SpreadElement" THEN "*" ELSE NameOf(entry.key)

----------------------------------------------------------------------------
(* The names a module exports, by the ECMAScript rules (BoundNames,        *)
(* ExportedNames), in source order; "*" stands for a bare export * from.   *)

RECURSIVE BoundNames(_), BoundNamesOfList(_)
BoundNames(pattern) ==
    CASE pattern.type = "Identifier" -> <<pattern.name>>
      [] pattern.type = "ObjectPattern" -> BoundNamesOfList(pattern.properties)
      [] pattern.type = "ArrayPattern" -> BoundNamesOfList(pattern.elements)
      [] pattern.type = "Property" -> BoundNames(pattern.value)
      [] pattern.type = "RestElement" -> BoundNames(pattern.argument)
      [] pattern.type = "AssignmentPattern" -> BoundNames(pattern.left)
      [] pattern.type = "VariableDeclarator" -> BoundNames(pattern.id)
      [] OTHER -> <<>>
BoundNamesOfList(patterns) ==
    IF patterns = <<>> THEN <<>>
    ELSE BoundNames(Head(patterns)) \o BoundNamesOfList(Tail(patterns))

ExportedNamesOf(statement) ==
    CASE statement.type = "ExportDefaultDeclaration" -> <<"default">>
      [] statement.type = "ExportAllDeclaration" ->
            IF statement.exported # Null THEN <<NameOf(statement.exported)>>
            ELSE <<"*">>
      [] statement.type = "ExportNamedDeclaration" ->
            IF statement.declaration = Null
            THEN [n \in 1..Len(statement.specifiers) |->
                    NameOf(statement.specifiers[n].exported)]
            ELSE IF statement.declaration.type = "VariableDeclaration"
            THEN BoundNamesOfList(statement.declaration.declarations)
            ELSE <<statement.declaration.id.name>>
      [] OTHER -> <<>>

RECURSIVE ExportedNames(_)
ExportedNames(statements) ==
    IF statements = <<>> THEN <<>>
    ELSE ExportedNamesOf(Head(statements)) \o ExportedNames(Tail(statements))

----------------------------------------------------------------------------
(* C2: exactly one ReturnStatement is appended and it is the last          *)
(* statement of the body; its argument is an object literal that lists,    *)
(* after the two markers, one entry for each export of the module, in      *)
(* source order, duplicate keys kept as separate entries.                  *)
C2_ReturnListsEveryExport ==
    Done =>
        /\ OutReturn.type = "ReturnStatement"
        /\ Len(SelectSeq(ast.body, LAMBDA st : st.type = "ReturnStatement")) = 1
        /\ OutReturn.argument.type = "ObjectExpression"
        /\ [n \in 1..Len(ReturnedEntries) |-> EntryName(ReturnedEntries[n])]
              = ExportedNames(input)

----------------------------------------------------------------------------
(* C3: the key set of the returned object (the names of its entries other  *)
(* than the two markers, and for each spread the keys of the awaited       *)
(* module it spreads) is exactly the set of names the module exports: its  *)
(* own exported names, and for each bare export * from "m" the keys of m   *)
(* other than default.                                                     *)

\* The keys of the module a specifier names.
ModuleKeys(specifier) ==
    IF specifier = "g" THEN {"default", "g1", "a"} ELSE {"default", specifier}

\* The keys of the value an import operation of the prologue resolves to.
OperationKeys(operation) ==
    IF IsThenCall(operation)
    THEN ModuleKeys(SourceOf(operation).value) \ {"default"}
    ELSE ModuleKeys(SourceOf(operation).value)

\* The keys a spread element adds: its argument is _imports or _imports[k].
SpreadKeys(entry) ==
    IF entry.argument.type = "Identifier"
    THEN OperationKeys(PrologueAwaited)
    ELSE OperationKeys(PrologueOperations[entry.argument.property.number + 1])

ReturnedKeys ==
    UNION {IF ReturnedEntries[n].type = "SpreadElement"
           THEN SpreadKeys(ReturnedEntries[n])
           ELSE {NameOf(ReturnedEntries[n].key)} : n \in 1..Len(ReturnedEntries)}

ModuleExports ==
    LET names == ExportedNames(input)
    IN  ({names[n] : n \in 1..Len(names)} \ {"*"})
        \cup UNION {IF input[n].type = "ExportAllDeclaration" /\ input[n].exported = Null
                    THEN ModuleKeys(input[n].source.value) \ {"default"}
                    ELSE {} : n \in 1..Len(input)}

C3_KeySetIsExportedNames == Done => ReturnedKeys = ModuleExports

----------------------------------------------------------------------------
(* C9: an import operation of a declaration with import attributes         *)
(* with { k1: v1, ... } gets as second argument the options object         *)
(* { with: { k1: v1, ... } }; one of a declaration without attributes gets *)
(* no second argument.                                                     *)
WithOptions(attributes) ==
    [type |-> "ObjectExpression",
     properties |-> <<
        [type |-> "Property", computed |-> FALSE, method |-> FALSE,
         shorthand |-> FALSE, kind |-> "init",
         key |-> [type |-> "Identifier", name |-> "with"],
         value |->
            [type |-> "ObjectExpression",
             properties |->
                [n \in 1..Len(attributes) |->
                    [type |-> "Property", computed |-> FALSE, method |-> FALSE,
                     shorthand |-> FALSE, kind |-> "init",
                     key |-> attributes[n].key, value |-> attributes[n].value]]]]>>]

C9_AttributesAsWithOptions ==
    Done =>
        \A k \in 1..Len(ImportOperations) :
            OptionsOf(PrologueOperations[k]) =
                IF Len(ImportOperations[k].attributes) > 0
                THEN WithOptions(ImportOperations[k].attributes)
                ELSE Null

----------------------------------------------------------------------------
(* C5: with importName configured, no ImportExpression and no import.meta  *)
(* node is left anywhere in the tree: every import(src) is the call        *)
(* importName(src) and every import.meta is importName.meta, also inside   *)
(* a declaration that replaced an export statement, inside the hoisted     *)
(* default export and inside the arguments of another rewritten import;    *)
(* every import operation of the prologue is a call to importName.         *)
IsImportMeta(node) == node.type = "MetaProperty" /\ node.meta.name = "import"

IsCallTo(node, name) ==
    /\ node.type = "CallExpression"
    /\ node.callee = [type |-> "Identifier", name |-> name]

IsMetaOf(node, name) ==
    /\ node.type = "MemberExpression"
    /\ ~node.computed
    /\ node.object = [type |-> "Identifier", name |-> name]
    /\ node.property = [type |-> "Identifier", name |-> "meta"]

InputImportExpressions ==
    SelectSeq(InputNodes, LAMBDA n : n.type = "ImportExpression")

C5_CustomImportEverywhere ==
    (Done /\ importName # "") =>
        LET output == OutputNodes
            middle == NodesOfList(OutMiddle)
            calls == SelectSeq(middle, LAMBDA n : IsCallTo(n, importName))
            metas == SelectSeq(middle, LAMBDA n : IsMetaOf(n, importName))
            expressions == InputImportExpressions
            operations == ImportOperations
            prologue == PrologueOperations
        IN  /\ "ImportExpression" \notin Types(output)
            /\ SelectSeq(output, IsImportMeta) = <<>>
            /\ Len(calls) = Len(expressions)
            /\ \A n \in 1..Len(calls) :
                  /\ Len(calls[n].arguments) =
                        IF expressions[n].options = Null THEN 1 ELSE 2
                  /\ expressions[n].source.type = "Literal" =>
                        calls[n].arguments[1] = expressions[n].source
                  /\ expressions[n].options # Null =>
                        calls[n].arguments[2] = expressions[n].options
            /\ Len(metas) = Len(SelectSeq(InputNodes, IsImportMeta))
            /\ Len(operations) > 0 =>
                  /\ Len(prologue) = Len(operations)
                  /\ \A k \in 1..Len(operations) :
                        /\ IsCallTo(ImportOf(prologue[k]), importName)
                        /\ SourceOf(prologue[k]) = operations[k].source

\* With importName: a module with an import operation, a default export of
\* an import expression and an import expression inside another one.
C5_Witness ==
    /\ Done
    /\ importName # ""
    /\ Len(ImportOperations) > 0
    /\ \E n \in 1..Len(input) :
          /\ input[n].type = "ExportDefaultDeclaration"
          /\ input[n].declaration.type = "ImportExpression"
    /\ \E n \in 1..Len(InputImportExpressions) :
          InputImportExpressions[n].source.type = "ImportExpression"

----------------------------------------------------------------------------
(* C6: without importName every ImportExpression and MetaProperty node of  *)
(* the input is left as it was, and every import operation of the prologue *)
(* is a native ImportExpression on the declaration's source, with no call  *)
(* to an identifier.                                                       *)
IsImportSyntax(node) == node.type \in {"ImportExpression", "MetaProperty"}

C6_NativeImportKept ==
    (Done /\ importName = "") =>
        /\ SelectSeq(NodesOfList(OutMiddle), IsImportSyntax)
              = SelectSeq(InputNodes, IsImportSyntax)
        /\ Len(ImportOperations) > 0 =>
              /\ Len(PrologueOperations) = Len(ImportOperations)
              /\ \A k \in 1..Len(ImportOperations) :
                    /\ ImportOf(PrologueOperations[k]).type = "ImportExpression"
                    /\ SourceOf(PrologueOperations[k]) = ImportOperations[k].source
              /\ LET nodes == Nodes(ast.body[2])
                 IN  \A n \in 1..Len(nodes) :
                        nodes[n].type = "CallExpression" =>
                            nodes[n].callee.type # "Identifier"

\* Without importName: a module with an import operation, an import
\* expression and an import.meta.
C6_Witness ==
    /\ Done
    /\ importName = ""
    /\ Len(ImportOperations) > 0
    /\ InputImportExpressions # <<>>
    /\ SelectSeq(InputNodes, IsImportMeta) # <<>>

----------------------------------------------------------------------------
(* C7: with exactly one import operation the prologue awaits that import   *)
(* expression itself, without Promise.all, and no export entry indexes     *)
(* into _imports: a re-exported member reads _imports.name, a namespace    *)
(* re-export reads _imports, a bare star re-export spreads _imports.  With *)
(* N > 1 import operations the prologue holds exactly one Promise.all      *)
(* call, whose array has the N import expressions in source order.         *)
ImportsIdentifier == [type |-> "Identifier", name |-> "_imports"]

\* node is _imports[<number>]
IsIndexedImports(node) ==
    /\ node.type = "MemberExpression"
    /\ node.object = ImportsIdentifier
    /\ node.computed
    /\ node.property.type = "Literal"
    /\ "number" \in DOMAIN node.property

\* The value of the entry of the returned object named `name`.
EntryValues(name) ==
    {ReturnedEntries[n].value :
        n \in {m \in 1..Len(ReturnedEntries) :
                /\ ReturnedEntries[m].type = "Property"
                /\ NameOf(ReturnedEntries[m].key) = name}}

C7_SingleImportCollapsed ==
    /\ (Done /\ Len(ImportOperations) = 1) =>
          LET operation == ImportOperations[1]
          IN  /\ SelectSeq(Nodes(ast.body[2]), IsPromiseAll) = <<>>
              /\ ImportOf(PrologueAwaited).type \in {"ImportExpression", "CallExpression"}
              /\ SourceOf(PrologueAwaited) = operation.source
              /\ SelectSeq(NodesOfList(ReturnedEntries), IsIndexedImports) = <<>>
              /\ (operation.type = "ExportNamedDeclaration") =>
                    \A n \in 1..Len(operation.specifiers) :
                        \E value \in EntryValues(NameOf(operation.specifiers[n].exported)) :
                            /\ value.type = "MemberExpression"
                            /\ value.object = ImportsIdentifier
                            /\ value.property = operation.specifiers[n].local
              /\ (operation.type = "ExportAllDeclaration" /\ operation.exported # Null) =>
                    ImportsIdentifier \in EntryValues(NameOf(operation.exported))
              /\ (operation.type = "ExportAllDeclaration" /\ operation.exported = Null) =>
                    \E n \in 1..Len(ReturnedEntries) :
                        /\ ReturnedEntries[n].type = "SpreadElement"
                        /\ ReturnedEntries[n].argument = ImportsIdentifier
    /\ (Done /\ Len(ImportOperations) > 1) =>
          /\ Len(SelectSeq(Nodes(ast.body[2]), IsPromiseAll)) = 1
          /\ IsPromiseAll(PrologueAwaited)
          /\ Len(PrologueAwaited.arguments) = 1
          /\ PrologueAwaited.arguments[1].type = "ArrayExpression"
          /\ Len(PrologueOperations) = Len(ImportOperations)
          /\ \A k \in 1..Len(ImportOperations) :
                /\ ImportOf(PrologueOperations[k]).type \in
                        {"ImportExpression", "CallExpression"}
                /\ SourceOf(PrologueOperations[k]) = ImportOperations[k].source

\* The only import operation of the module is a re-export of two members.
C7_Witness ==
    /\ Done
    /\ Len(ImportOperations) = 1
    /\ ImportOperations[1].type = "ExportNamedDeclaration"
    /\ Len(ImportOperations[1].specifiers) = 2
    /\ Len(input) > 1

----------------------------------------------------------------------------
(* C8: with more than one import operation, the k-th operation in source   *)
(* order (from 0) is at position k of the Promise.all array, the binding   *)
(* pattern of an import declaration that is the k-th operation is at       *)
(* position k of the array pattern, and every export entry of a re-export  *)
(* that is the k-th operation reads _imports[k]; the index an entry got    *)
(* when its declaration was visited is not changed by later declarations   *)
(* nor by finalization.                                                    *)

\* The index k of the _imports[k] an entry reads, -1 when it reads none.
ReadIndex(entry) ==
    LET expression == IF entry.type = "SpreadElement" THEN entry.argument
                      ELSE entry.value
    IN  IF expression.type # "MemberExpression" THEN -1
        ELSE IF IsIndexedImports(expression) THEN expression.property.number
        ELSE IF IsIndexedImports(expression.object)
        THEN expression.object.property.number
        ELSE -1

Reads(entries) ==
    SelectSeq([n \in 1..Len(entries) |-> ReadIndex(entries[n])],
              LAMBDA k : k # -1)

\* The indexes the entries of the re-exports read, from the input: the
\* k-th import operation gives k, once for each entry it adds.
RECURSIVE ExpectedReads(_, _)
ExpectedReads(statements, k) ==
    IF statements = <<>> THEN <<>>
    ELSE LET statement == Head(statements)
         IN  IF ~IsImportOperation(statement)
             THEN ExpectedReads(Tail(statements), k)
             ELSE (CASE statement.type = "ExportAllDeclaration" -> <<k>>
                     [] statement.type = "ExportNamedDeclaration" ->
                            [n \in 1..Len(statement.specifiers) |-> k]
                     [] OTHER -> <<>>)
                  \o ExpectedReads(Tail(statements), k + 1)

IsPrefix(a, b) == Len(a) <= Len(b) /\ a = SubSeq(b, 1, Len(a))

LocalNames(declaration) ==
    {declaration.specifiers[n].local.name : n \in 1..Len(declaration.specifiers)}

HasBinding(statement) ==
    statement.type = "ImportDeclaration" /\ Len(statement.specifiers) > 0

\* The array pattern the awaited array is destructured with.
PrologueArrayPattern ==
    LET declarations == ast.body[2].declarations
    IN  declarations[Len(declarations)].id

C8_SlotIndexStable ==
    /\ (pc = "walk" \/ Len(ImportOperations) > 1) =>
          IsPrefix(Reads(exports), ExpectedReads(input, 0))
    /\ (Done /\ Len(ImportOperations) > 1) =>
          /\ Reads(ReturnedEntries) = ExpectedReads(input, 0)
          /\ Len(PrologueOperations) = Len(ImportOperations)
          /\ \A k \in 1..Len(ImportOperations) :
                SourceOf(PrologueOperations[k]) = ImportOperations[k].source
          /\ (\E k \in 1..Len(ImportOperations) : HasBinding(ImportOperations[k])) =>
                LET elements == PrologueArrayPattern.elements
                    names(k) == LET found == BoundNames(elements[k])
                                IN  {found[n] : n \in 1..Len(found)}
                IN  /\ PrologueArrayPattern.type = "ArrayPattern"
                    /\ Len(elements) <= Len(ImportOperations)
                    /\ \A k \in 1..Len(ImportOperations) :
                          IF HasBinding(ImportOperations[k])
                          THEN /\ k <= Len(elements)
                               /\ elements[k] # Null
                               /\ names(k) # {}
                               /\ names(k) \subseteq LocalNames(ImportOperations[k])
                          ELSE k <= Len(elements) => elements[k] = Null

\* Three import operations: a re-export between two import declarations
\* with bindings.
C8_Witness ==
    /\ Done
    /\ Len(ImportOperations) = 3
    /\ HasBinding(ImportOperations[1])
    /\ ImportOperations[2].type = "ExportNamedDeclaration"
    /\ HasBinding(ImportOperations[3])
    /\ ImportOperations[1] # ImportOperations[3]

----------------------------------------------------------------------------
(* C11: a module without import and export declarations                    *)

\* The module has no import declaration and no export declaration.
IsPlainModule ==
    \A n \in 1..Len(input) : input[n].type \notin ModuleDeclarationTypes

\* The walk has nothing to change below the statement: it holds no
\* 'use strict' statement and, when importName is given, no import
\* expression and no meta property.
IsUntouched(statement) ==
    LET nodes == Nodes(statement)
    IN  /\ SelectSeq(nodes, IsUseStrict) = <<>>
        /\ importName # "" => SelectSeq(nodes, IsImportSyntax) = <<>>

\* The returned object holds the two markers and nothing else.
ReturnsOnlyMarkers ==
    /\ OutReturn.type = "ReturnStatement"
    /\ OutReturn.argument.type = "ObjectExpression"
    /\ Len(OutReturn.argument.properties) = 2
    /\ IsProtoMarker(OutReturn.argument.properties[1])
    /\ IsToStringTagMarker(OutReturn.argument.properties[2])

----------------------------------------------------------------------------
(* C12: __proto__ as an exported or re-exported name                       *)

\* The node is the identifier __proto__ or the string literal '__proto__'.
NamesProto(node) ==
    \/ node.type = "Identifier" /\ node.name = "__proto__"
    \/ IsString(node, "__proto__")

\* The export entries of `entries` whose key is __proto__.
ProtoEntries(entries) ==
    SelectSeq(entries, LAMBDA e : e.type = "Property" /\ NamesProto(e.key))

\* The member accesses below the export entries that read __proto__.
ProtoReads(entries) ==
    SelectSeq(NodesOfList(entries),
              LAMBDA n : n.type = "MemberExpression" /\ NamesProto(n.property))

\* The specifiers of the re-exports of the module that import __proto__.
ProtoReExports ==
    SelectSeq(NodesOfList(SelectSeq(input,
                  LAMBDA st : st.type = "ExportNamedDeclaration" /\ st.source # Null)),
              LAMBDA n : n.type = "ExportSpecifier" /\ NamesProto(n.local))

\* C12: every export entry whose key is __proto__ is computed, has the
\* string literal '__proto__' as its key and is not shorthand, in every state
\* of the list of entries and in the returned object; there is one such entry
\* for each export of the module named __proto__, written as identifier or
\* as string literal; every member access of an entry that reads __proto__ is
\* computed with a string literal property, and there is one for each
\* re-export specifier importing __proto__; the only non-computed __proto__
\* key of the returned object is the marker.
C12_ProtoKeysComputed ==
    /\ \A n \in 3..Len(exports) :
          (exports[n].type = "Property" /\ NamesProto(exports[n].key)) =>
              /\ exports[n].computed
              /\ exports[n].key = [type |-> "Literal", value |-> "__proto__"]
              /\ ~exports[n].shorthand
    /\ Done =>
          LET properties == OutReturn.argument.properties
              reads == ProtoReads(ReturnedEntries)
          IN  /\ properties = exports
              /\ \A n \in 1..Len(properties) :
                    (/\ properties[n].type = "Property"
                     /\ ~properties[n].computed
                     /\ NamesProto(properties[n].key)) => n = 1
              /\ Len(ProtoEntries(ReturnedEntries)) =
                    Len(SelectSeq(ExportedNames(input), LAMBDA name : name = "__proto__"))
              /\ Len(reads) = Len(ProtoReExports)
              /\ \A n \in 1..Len(reads) :
                    /\ reads[n].computed
                    /\ reads[n].property = [type |-> "Literal", value |-> "__proto__"]

\* A module that exports a local binding as __proto__ and re-exports both
\* the member __proto__ of another module and a member under the name
\* '__proto__' has been rewritten.
C12_Witness ==
    /\ Done
    /\ Len(ProtoEntries(ReturnedEntries)) >= 2
    /\ Len(ProtoReExports) >= 1
    /\ \E n \in 1..Len(input) :
          /\ input[n].type = "ExportNamedDeclaration"
          /\ input[n].source = Null
          /\ input[n].declaration = Null

----------------------------------------------------------------------------
(* C13: the binding pattern of an import declaration with default and      *)
(* named specifiers                                                        *)

\* The declaration has specifiers, all of them default or named.
HasNamedBindings(statement) ==
    /\ statement.type = "ImportDeclaration"
    /\ Len(statement.specifiers) > 0
    /\ \A n \in 1..Len(statement.specifiers) :
          statement.specifiers[n].type \in {"ImportDefaultSpecifier", "ImportSpecifier"}

\* The property is the one the claim gives for the specifier.
BindsSpecifier(property, specifier) ==
    /\ property.type = "Property"
    /\ ~property.computed
    /\ property.kind = "init"
    /\ property.value = specifier.local
    /\ IF specifier.type = "ImportDefaultSpecifier"
       THEN /\ property.key = [type |-> "Identifier", name |-> "default"]
            /\ ~property.shorthand
       ELSE /\ property.key = specifier.imported
            /\ property.shorthand <=>
                  /\ specifier.imported.type = "Identifier"
                  /\ specifier.imported.name = specifier.local.name

\* The pattern is an object pattern with one property per specifier of the
\* declaration, in specifier order.
BindsSpecifiers(pattern, declaration) ==
    /\ pattern.type = "ObjectPattern"
    /\ Len(pattern.properties) = Len(declaration.specifiers)
    /\ \A n \in 1..Len(declaration.specifiers) :
          BindsSpecifier(pattern.properties[n], declaration.specifiers[n])

\* The pattern the prologue binds the result of import operation k with.
ProloguePattern(k) ==
    LET declarations == ast.body[2].declarations
        id == declarations[Len(declarations)].id
    IN  IF Len(ImportOperations) = 1 THEN id ELSE id.elements[k]

\* C13: for an import declaration with default and/or named specifiers the
\* binding pattern, as recorded during the walk and as emitted in the
\* prologue, is an object pattern with exactly one property per specifier,
\* in specifier order: `default: local`, not shorthand, for a default
\* specifier; for a named specifier the key is the imported name (identifier
\* or string literal) and the value the local name, shorthand exactly when
\* the imported name is an identifier equal to the local name.
C13_BindingPatternPerSpecifier ==
    LET operations == ImportOperations
    IN  /\ pc = "walk" =>
              \A k \in 1..Len(importAssignments) :
                  HasNamedBindings(operations[k]) =>
                      BindsSpecifiers(importAssignments[k], operations[k])
        /\ Done =>
              \A k \in 1..Len(operations) :
                  HasNamedBindings(operations[k]) =>
                      /\ ast.body[2].type = "VariableDeclaration"
                      /\ BindsSpecifiers(ProloguePattern(k), operations[k])

\* Two import declarations, one with a default, an aliased and a shorthand
\* specifier and one importing a string-literal name, follow an import
\* operation that binds no name.
C13_Witness ==
    /\ Done
    /\ Len(ImportOperations) = 3
    /\ ~HasNamedBindings(ImportOperations[1])
    /\ HasNamedBindings(ImportOperations[2])
    /\ HasNamedBindings(ImportOperations[3])
    /\ Len(ImportOperations[2].specifiers) + Len(ImportOperations[3].specifiers) = 4

----------------------------------------------------------------------------
(* C14: export default                                                     *)

\* The positions of the default exports among the statements that are kept.
DefaultPositions ==
    {n \in 1..Len(KeptInput) : KeptInput[n].type = "ExportDefaultDeclaration"}

\* The export entries with the key default.
DefaultEntries ==
    SelectSeq(ReturnedEntries,
              LAMBDA e : e.type = "Property"
                         /\ e.key = [type |-> "Identifier", name |-> "default"])

\* The entry is  default: name
IsDefaultEntry(entry, name) ==
    /\ ~entry.computed
    /\ ~entry.shorthand
    /\ entry.value = [type |-> "Identifier", name |-> name]

\* C14: an export default statement is replaced at its own position by a
\* declaration and adds exactly one entry with the key default.  A function
\* or class declaration replaces the statement itself, an anonymous one
\* named __default_export__, and the entry is default: <its name>; any
\* other expression becomes const __default_export__ = <expression> and
\* the entry is default: __default_export__.
C14_DefaultExportDeclared ==
    Done =>
        /\ Len(OutMiddle) = Len(KeptInput)
        /\ Len(DefaultEntries) = Cardinality(DefaultPositions)
        /\ \A n \in DefaultPositions :
              LET declaration == KeptInput[n].declaration
                  statement == OutMiddle[n]
                  entry == DefaultEntries[1]
              IN  IF declaration.type \in {"FunctionDeclaration", "ClassDeclaration"}
                  THEN LET name == IF declaration.id = Null
                                   THEN "__default_export__"
                                   ELSE declaration.id.name
                       IN  /\ statement.type = declaration.type
                           /\ statement.id = [type |-> "Identifier", name |-> name]
                           /\ IsUntouched(declaration) =>
                                 statement =
                                    [declaration EXCEPT !.id = statement.id]
                           /\ IsDefaultEntry(entry, name)
                  ELSE /\ statement.type = "VariableDeclaration"
                       /\ statement.kind = "const"
                       /\ Len(statement.declarations) = 1
                       /\ statement.declarations[1].type = "VariableDeclarator"
                       /\ statement.declarations[1].id =
                             [type |-> "Identifier", name |-> "__default_export__"]
                       /\ IsUntouched(declaration) =>
                             statement.declarations[1].init = declaration
                       /\ IsDefaultEntry(entry, "__default_export__")

\* A default export of an anonymous class that is not the first statement
\* kept has been rewritten.
C14_Witness ==
    /\ Done
    /\ \E n \in DefaultPositions :
          /\ n > 1
          /\ KeptInput[n].declaration.type = "ClassDeclaration"
          /\ KeptInput[n].declaration.id = Null

----------------------------------------------------------------------------
(* C15: export of a declaration                                            *)

IsExportedDeclaration(statement) ==
    statement.type = "ExportNamedDeclaration" /\ statement.declaration # Null

\* The exports of the module in source order, each with its name and
\* whether an exported declaration binds it.
RECURSIVE ExportedBindings(_)
ExportedBindings(statements) ==
    IF statements = <<>> THEN <<>>
    ELSE LET names == ExportedNamesOf(Head(statements))
         IN  [n \in 1..Len(names) |->
                [name |-> names[n],
                 declared |-> IsExportedDeclaration(Head(statements))]]
             \o ExportedBindings(Tail(statements))

\* C15: for export <declaration> the declaration replaces the statement at
\* the same position, and the entries added are exactly one per binding name
\* the declaration introduces, in source order (the name of a function or
\* class; every identifier a variable declaration binds, through object and
\* array patterns, rest elements and default-valued elements), each entry
\* name: name, shorthand (for the name __proto__: computed, see C12).
C15_DeclarationBindingsExported ==
    Done =>
        LET expected == ExportedBindings(input)
            kept == KeptInput
        IN  /\ Len(OutMiddle) = Len(kept)
            /\ \A n \in 1..Len(kept) :
                  IsExportedDeclaration(kept[n]) =>
                      /\ OutMiddle[n].type = kept[n].declaration.type
                      /\ IsUntouched(kept[n]) => OutMiddle[n] = kept[n].declaration
            /\ Len(ReturnedEntries) = Len(expected)
            /\ \A n \in 1..Len(expected) :
                  expected[n].declared =>
                      /\ ReturnedEntries[n].type = "Property"
                      /\ NameOf(ReturnedEntries[n].key) = expected[n].name
                      /\ ReturnedEntries[n].value =
                            [type |-> "Identifier", name |-> expected[n].name]
                      /\ ReturnedEntries[n].shorthand <=>
                            expected[n].name # "__proto__"

----------------------------------------------------------------------------
(* C16: export { a, b as c } without a source                              *)

IsLocalExport(statement) ==
    /\ statement.type = "ExportNamedDeclaration"
    /\ statement.declaration = Null
    /\ statement.source = Null

\* The specifier's exported and local names are the same identifier.
SameIdentifier(specifier) ==
    /\ specifier.exported.type = "Identifier"
    /\ specifier.local.type = "Identifier"
    /\ specifier.exported.name = specifier.local.name

\* The entry is  exported: local  for the specifier; `shorthand` says
\* whether it has to be rendered shorthand.
IsLocalEntry(entry, specifier, shorthand) ==
    /\ entry.type = "Property"
    /\ NameOf(entry.key) = NameOf(specifier.exported)
    /\ entry.value = specifier.local
    /\ entry.value.type = "Identifier"
    /\ entry.shorthand <=> shorthand

\* The step of the walk at an export of local names: the statement is
\* removed, no import operation is recorded, and one entry per specifier
\* is added in specifier order.
LocalExportStep(Shorthand(_)) ==
    (Walking /\ IsLocalExport(Current)) =>
        LET specifiers == Current.specifiers
        IN  /\ ast'.body = RemoveAt(ast.body, index)
            /\ index' = index
            /\ importExpressions' = importExpressions
            /\ importAssignments' = importAssignments
            /\ toPatch' = toPatch
            /\ Len(exports') = Len(exports) + Len(specifiers)
            /\ SubSeq(exports', 1, Len(exports)) = exports
            /\ \A n \in 1..Len(specifiers) :
                  IsLocalEntry(exports'[Len(exports) + n], specifiers[n],
                               Shorthand(specifiers[n]))

\* The returned object holds the entry of every specifier of every export
\* of local names.
LocalEntriesReturned(Shorthand(_)) ==
    Done =>
        \A n \in 1..Len(input) :
            IsLocalExport(input[n]) =>
                \A k \in 1..Len(input[n].specifiers) :
                    \E m \in 1..Len(ReturnedEntries) :
                        IsLocalEntry(ReturnedEntries[m], input[n].specifiers[k],
                                     Shorthand(input[n].specifiers[k]))

\* Shorthand when the two names are the same identifier, other than
\* __proto__.
ShorthandButProto(specifier) ==
    SameIdentifier(specifier) /\ specifier.exported.name # "__proto__"

\* C16 as amended: for export { a, b as c } without a source the statement
\* is removed, no import operation is recorded, and one entry per specifier
\* is added in order, exported: local, referencing the local identifier,
\* shorthand exactly when the exported and the local name are the same
\* identifier other than __proto__ (which is emitted computed, not
\* shorthand); the returned object holds these entries.
C16_LocalExportEntries ==
    /\ [][LocalExportStep(ShorthandButProto)]_vars
    /\ [](LocalEntriesReturned(ShorthandButProto))

\* An export of local names was met after an import operation, and the
\* module has been rewritten.
C16_Witness ==
    /\ Done
    /\ Len(ImportOperations) > 0
    /\ \E n \in 2..Len(input) : IsLocalExport(input[n])

\* C16 as stated: shorthand exactly when the exported and the local name
\* are the same identifier.
C16_ShorthandWhenSameIdentifier ==
    /\ [][LocalExportStep(SameIdentifier)]_vars
    /\ [](LocalEntriesReturned(SameIdentifier))

----------------------------------------------------------------------------
(* C17: export { a, default as b } from "mod"                              *)

IsReExport(statement) ==
    /\ statement.type = "ExportNamedDeclaration"
    /\ statement.declaration = Null
    /\ statement.source # Null

\* The node is  _imports[k]
IsImportsSlot(node, k) ==
    /\ node.type = "MemberExpression"
    /\ node.computed
    /\ node.object = ImportsIdentifier
    /\ node.property = [type |-> "Literal", number |-> k]

\* The node is the identifier `name` or the string literal 'name'.
HasName(node, name) ==
    \/ node.type = "Identifier" /\ node.name = name
    \/ IsString(node, name)

\* The entry is  exported: <result>.imported  for the specifier, not
\* shorthand, where <result> is _imports[k], or _imports itself when the
\* reference is direct.
IsReExportEntry(entry, specifier, k, direct) ==
    /\ entry.type = "Property"
    /\ ~entry.shorthand
    /\ NameOf(entry.key) = NameOf(specifier.exported)
    /\ entry.value.type = "MemberExpression"
    /\ HasName(entry.value.property, NameOf(specifier.local))
    /\ specifier.local.type = "Literal" =>
          entry.value.computed /\ entry.value.property = specifier.local
    /\ (specifier.local.type = "Identifier" /\ specifier.local.name # "__proto__") =>
          ~entry.value.computed /\ entry.value.property = specifier.local
    /\ IF direct THEN entry.value.object = ImportsIdentifier
       ELSE IsImportsSlot(entry.value.object, k)

\* The step of the walk at a re-export of named members: the statement is
\* removed, one import operation for its source is recorded, without a
\* binding pattern, and one entry per specifier is added in order.
ReExportStep ==
    (Walking /\ IsReExport(Current)) =>
        LET specifiers == Current.specifiers
            k == Len(importExpressions)
        IN  /\ ast'.body = RemoveAt(ast.body, index)
            /\ index' = index
            /\ Len(importExpressions') = k + 1
            /\ SubSeq(importExpressions', 1, k) = importExpressions
            /\ importExpressions'[k + 1].type \in {"ImportExpression", "CallExpression"}
            /\ SourceOf(importExpressions'[k + 1]) = Current.source
            /\ importAssignments' = Append(importAssignments, Null)
            /\ Len(exports') = Len(exports) + Len(specifiers)
            /\ SubSeq(exports', 1, Len(exports)) = exports
            /\ \A n \in 1..Len(specifiers) :
                  IsReExportEntry(exports'[Len(exports) + n], specifiers[n], k, FALSE)

\* The number of import operations among the first n statements.
OperationsUpTo(n) == Len(SelectSeq(SubSeq(input, 1, n), IsImportOperation))

\* In the output, the entry of every re-exported member reads the awaited
\* result of the import operation of its statement, which imports the
\* statement's source.
ReExportsReturned ==
    Done =>
        \A n \in 1..Len(input) :
            IsReExport(input[n]) =>
                LET k == OperationsUpTo(n)
                IN  /\ ast.body[2].type = "VariableDeclaration"
                    /\ ast.body[2].declarations[1].id = ImportsIdentifier
                    /\ ast.body[2].declarations[1].init.type = "AwaitExpression"
                    /\ SourceOf(PrologueOperations[k]) = input[n].source
                    /\ \A s \in 1..Len(input[n].specifiers) :
                          \E m \in 1..Len(ReturnedEntries) :
                              IsReExportEntry(ReturnedEntries[m], input[n].specifiers[s],
                                              k - 1, Len(ImportOperations) = 1)

\* C17: for export { a, default as b, ... } from "mod" the statement is
\* removed, exactly one import operation for "mod" is recorded whatever
\* the number of specifiers, with no binding pattern of its own, and each
\* specifier adds one entry, not shorthand, whose key is the exported name
\* and whose value is a member access reading the imported name from the
\* awaited result of that import operation, computed when the imported
\* name is a string literal.
C17_ReExportReadsImport ==
    /\ [][ReExportStep]_vars
    /\ []ReExportsReturned

\* A re-export of five members, one of them imported under a string-literal
\* name, is the second of three import operations.
C17_Witness ==
    /\ Done
    /\ Len(ImportOperations) = 3
    /\ IsReExport(ImportOperations[2])
    /\ Len(ImportOperations[2].specifiers) = 5
    /\ \E s \in 1..5 : ImportOperations[2].specifiers[s].local.type = "Literal"

----------------------------------------------------------------------------
(* C18: export * as ns from "m" and export * from "m"                      *)

\* The function is  ({ default: _, ...m }) => m : applied to the key/value
\* mapping of a module it gives the mapping without the key default.
StripsDefault(function) ==
    /\ function.type = "ArrowFunctionExpression"
    /\ function.expression
    /\ Len(function.params) = 1
    /\ function.params[1].type = "ObjectPattern"
    /\ Len(function.params[1].properties) = 2
    /\ LET first == function.params[1].properties[1]
           rest == function.params[1].properties[2]
       IN  /\ first.type = "Property"
           /\ ~first.computed
           /\ first.key = [type |-> "Identifier", name |-> "default"]
           /\ first.value.type = "Identifier"
           /\ rest.type = "RestElement"
           /\ rest.argument.type = "Identifier"
           /\ rest.argument.name # first.value.name
           /\ function.body = rest.argument

\* The expression imports the source: import(source) without importName,
\* importName(source) with it.
IsImportOf(expression, source) ==
    IF importName = ""
    THEN expression.type = "ImportExpression" /\ expression.source = source
    ELSE /\ expression.type = "CallExpression"
         /\ expression.callee = [type |-> "Identifier", name |-> importName]
         /\ expression.arguments[1] = source

\* The import operation of an export-all declaration: the import itself
\* when the exports get a namespace name, and otherwise the import with
\* .then(strip default) applied to it.
IsExportAllOperation(operation, statement) ==
    IF statement.exported # Null
    THEN IsImportOf(operation, statement.source)
    ELSE /\ IsThenCall(operation)
         /\ ~operation.callee.computed
         /\ IsImportOf(operation.callee.object, statement.source)
         /\ Len(operation.arguments) = 1
         /\ StripsDefault(operation.arguments[1])

\* The entry of an export-all declaration: ns: <result>, or ...<result>.
IsExportAllEntry(entry, statement, k, direct) ==
    LET result == IF entry.type = "Property" THEN entry.value ELSE entry.argument
    IN  /\ IF statement.exported # Null
           THEN /\ entry.type = "Property"
                /\ ~entry.shorthand
                /\ NameOf(entry.key) = NameOf(statement.exported)
           ELSE entry.type = "SpreadElement"
        /\ IF direct THEN result = ImportsIdentifier ELSE IsImportsSlot(result, k)

\* The step of the walk at an export-all declaration.
ExportAllStep ==
    (Walking /\ Current.type = "ExportAllDeclaration") =>
        LET k == Len(importExpressions)
        IN  /\ ast'.body = RemoveAt(ast.body, index)
            /\ index' = index
            /\ Len(importExpressions') = k + 1
            /\ SubSeq(importExpressions', 1, k) = importExpressions
            /\ IsExportAllOperation(importExpressions'[k + 1], Current)
            /\ importAssignments' = Append(importAssignments, Null)
            /\ Len(exports') = Len(exports) + 1
            /\ SubSeq(exports', 1, Len(exports)) = exports
            /\ IsExportAllEntry(exports'[Len(exports) + 1], Current, k, FALSE)

\* In the output, the import operation of every export-all declaration is
\* issued in the prologue and its entry reads the awaited result.
ExportAllReturned ==
    Done =>
        \A n \in 1..Len(input) :
            input[n].type = "ExportAllDeclaration" =>
                LET k == OperationsUpTo(n)
                IN  /\ Len(PrologueOperations) = Len(ImportOperations)
                    /\ IsExportAllOperation(PrologueOperations[k], input[n])
                    /\ \E m \in 1..Len(ReturnedEntries) :
                          IsExportAllEntry(ReturnedEntries[m], input[n], k - 1,
                                           Len(ImportOperations) = 1)

\* C18: each export-all declaration records exactly one import operation
\* and is removed.  export * as ns from "m" adds the entry ns: <the awaited
\* result of importing m>, the import not wrapped, so that default stays.
\* export * from "m" adds a spread element of the result, and the import
\* of m is wrapped in .then(({ default: _, ...m }) => m), so that the
\* awaited value is the mapping without default; with and without
\* importName.
C18_ExportAllOperations ==
    /\ [][ExportAllStep]_vars
    /\ []ExportAllReturned

\* With importName, a bare export * and an export * as ns have been
\* rewritten in one module.
C18_Witness ==
    /\ Done
    /\ importName # ""
    /\ \E n \in 1..Len(input) :
          input[n].type = "ExportAllDeclaration" /\ input[n].exported = Null
    /\ \E n \in 1..Len(input) :
          input[n].type = "ExportAllDeclaration" /\ input[n].exported # Null

----------------------------------------------------------------------------
(* C19: the options of a dynamic import expression under importName        *)

\* C19: with importName, the call that replaces an import expression has
\* exactly two arguments when the import expression has options, the
\* original source and then the original options node, unchanged, and
\* exactly one argument, the source, when it has none.  (A source that
\* itself holds an import expression is rewritten in turn.)
C19_ImportOptionsKept ==
    (Done /\ importName # "") =>
        LET expressions == InputImportExpressions
            calls == SelectSeq(NodesOfList(OutMiddle),
                               LAMBDA n : IsCallTo(n, importName))
        IN  /\ Len(calls) = Len(expressions)
            /\ \A n \in 1..Len(expressions) :
                  /\ IsUntouched(expressions[n].source) =>
                        calls[n].arguments[1] = expressions[n].source
                  /\ IF expressions[n].options = Null
                     THEN Len(calls[n].arguments) = 1
                     ELSE /\ Len(calls[n].arguments) = 2
                          /\ calls[n].arguments[2] = expressions[n].options

\* With importName, a module with an import expression with options and
\* one without has been rewritten.
C19_Witness ==
    /\ Done
    /\ importName # ""
    /\ \E n \in 1..Len(InputImportExpressions) :
          InputImportExpressions[n].options # Null
    /\ \E n \in 1..Len(InputImportExpressions) :
          InputImportExpressions[n].options = Null

----------------------------------------------------------------------------
(* C20: the array pattern of the prologue of several import operations     *)

\* The place of the last import operation that binds a name; 0 when none
\* does.
LastBinding ==
    LET bound == {k \in 1..Len(ImportOperations) : HasBinding(ImportOperations[k])}
    IN  IF bound = {} THEN 0 ELSE CHOOSE k \in bound : \A j \in bound : j <= k

\* C20: with more than one import operation, the array pattern of the
\* prologue ends at the last import operation that binds a name: the
\* positions after it are removed, every position before it without a
\* binding is a hole, every position of an operation with a binding holds
\* a pattern; the array given to Promise.all holds all N import
\* expressions.
C20_TrailingHolesTrimmed ==
    (Done /\ Len(ImportOperations) > 1) =>
        LET pattern == PrologueArrayPattern
        IN  /\ pattern.type = "ArrayPattern"
            /\ Len(pattern.elements) = LastBinding
            /\ \A k \in 1..Len(pattern.elements) :
                  (pattern.elements[k] = Null) <=> ~HasBinding(ImportOperations[k])
            /\ IsPromiseAll(PrologueAwaited)
            /\ Len(PrologueAwaited.arguments[1].elements) = Len(ImportOperations)

\* Three import operations: the first and the last bind nothing, the
\* second binds a name.
C20_Witness ==
    /\ Done
    /\ Len(ImportOperations) = 3
    /\ ~HasBinding(ImportOperations[1])
    /\ HasBinding(ImportOperations[2])
    /\ ~HasBinding(ImportOperations[3])

----------------------------------------------------------------------------
(* C21: the prologue of a module with re-exports                           *)

\* The statement adds an export entry that reads an import result.
ReadsImportResult(statement) ==
    \/ statement.type = "ExportAllDeclaration"
    \/ IsReExport(statement) /\ Len(statement.specifiers) > 0

\* C21: when an export entry reads from an import result, the prologue is
\* one const declaration whose first declarator is
\* _imports = await <import expression>; it has a second declarator,
\* <binding pattern> = _imports, exactly when an import operation has a
\* binding pattern, and the single _imports declarator when none has.
C21_SecondDeclaratorOnlyForBindings ==
    (Done /\ \E n \in 1..Len(input) : ReadsImportResult(input[n])) =>
        LET prologue == ast.body[2]
            bound == \E k \in 1..Len(ImportOperations) : HasBinding(ImportOperations[k])
        IN  /\ prologue.type = "VariableDeclaration"
            /\ prologue.kind = "const"
            /\ prologue.declarations[1].id = ImportsIdentifier
            /\ prologue.declarations[1].init.type = "AwaitExpression"
            /\ Len(prologue.declarations) = IF bound THEN 2 ELSE 1
            /\ bound => prologue.declarations[2].init = ImportsIdentifier

----------------------------------------------------------------------------
(* C22: the place of the prologue                                          *)

\* The statement awaits import operations: await <operations>, or a const
\* declaration whose first declarator is initialised with it.
IsPrologueStatement(statement) ==
    LET awaited == IF statement.type = "ExpressionStatement"
                   THEN statement.expression
                   ELSE IF statement.type = "VariableDeclaration"
                   THEN statement.declarations[1].init
                   ELSE Null
    IN  /\ awaited.type = "AwaitExpression"
        /\ \/ IsPromiseAll(awaited.argument)
           \/ ImportOf(awaited.argument).type = "ImportExpression"
           \/ IsCallTo(ImportOf(awaited.argument), importName)

\* C22: when the module has an import operation, the prologue is exactly
\* one statement, the second of the output, directly after the directive
\* and before every statement that came from the original body; it issues
\* all the import operations, in source order, whatever the place of their
\* declarations in the source.
C22_PrologueSecondStatement ==
    (Done /\ Len(ImportOperations) > 0) =>
        LET operations == ImportOperations
            issued == PrologueOperations
            kept == KeptInput
        IN  /\ IsUseStrict(ast.body[1])
            /\ IsPrologueStatement(ast.body[2])
            /\ Len(issued) = Len(operations)
            /\ \A k \in 1..Len(operations) :
                  SourceOf(issued[k]) = operations[k].source
            /\ Len(ast.body) = Len(kept) + 3
            /\ \A n \in 1..Len(kept) :
                  /\ IF kept[n].type \in {"ExportNamedDeclaration",
                                          "ExportDefaultDeclaration"}
                     THEN ast.body[n + 2].type \in PlainDeclarationTypes
                     ELSE ast.body[n + 2].type = kept[n].type
                  /\ (kept[n].type \notin ModuleDeclarationTypes /\ IsUntouched(kept[n]))
                        => ast.body[n + 2] = kept[n]
            /\ ast.body[Len(ast.body)].type = "ReturnStatement"

\* The import declarations of the module come after a statement that is
\* kept.
C22_Witness ==
    /\ Done
    /\ Len(input) = 3
    /\ ~IsImportOperation(input[1])
    /\ IsKept(input[1])
    /\ IsImportOperation(input[2])
    /\ IsImportOperation(input[3])

----------------------------------------------------------------------------
(* C23: the prologue of a single side-effect or namespace import           *)

\* C23: when the only import operation of the module is import 'm', the
\* prologue is the expression statement await <import of m>, with no
\* binding and no variable declaration; when it is import * as ns from 'm',
\* the prologue is const ns = await <import of m>, the identifier bound to
\* the whole import result.
C23_SingleImportPrologue ==
    (Done /\ Len(ImportOperations) = 1
          /\ ImportOperations[1].type = "ImportDeclaration") =>
        LET operation == ImportOperations[1]
            prologue == ast.body[2]
        IN  /\ operation.specifiers = <<>> =>
                  /\ prologue.type = "ExpressionStatement"
                  /\ prologue.expression.type = "AwaitExpression"
                  /\ IsImportOf(prologue.expression.argument, operation.source)
            /\ (/\ Len(operation.specifiers) = 1
                /\ operation.specifiers[1].type = "ImportNamespaceSpecifier") =>
                  /\ prologue.type = "VariableDeclaration"
                  /\ prologue.kind = "const"
                  /\ Len(prologue.declarations) = 1
                  /\ prologue.declarations[1].id = operation.specifiers[1].local
                  /\ prologue.declarations[1].id.type = "Identifier"
                  /\ prologue.declarations[1].init.type = "AwaitExpression"
                  /\ IsImportOf(prologue.declarations[1].init.argument,
                                operation.source)

\* With importName, a module whose only import operation is a side-effect
\* import, between two other statements, has been rewritten.
C23_Witness ==
    /\ Done
    /\ importName # ""
    /\ Len(input) = 3
    /\ Len(ImportOperations) = 1
    /\ input[2].type = "ImportDeclaration"
    /\ input[2].specifiers = <<>>

----------------------------------------------------------------------------
(* C24: one import operation per import-like declaration                   *)

\* The number of statements of the input the walk has passed.
Passed == Len(input) - (Len(ast.body) - index + 1)

\* C24: the number of import operations recorded is the number of import
\* declarations, export declarations with a source and export-all
\* declarations of the input, operations naming the same module not merged;
\* throughout the walk the list of binding patterns and the list of import
\* expressions have the same length, the number of such declarations
\* passed so far, and the prologue issues all of them.
C24_OneOperationPerDeclaration ==
    /\ pc = "walk" =>
          /\ Len(importAssignments) = Len(importExpressions)
          /\ Len(importExpressions) = OperationsUpTo(Passed)
    /\ Done =>
          /\ Len(importExpressions) = Len(ImportOperations)
          /\ Len(importAssignments) <= Len(importExpressions)
          /\ Len(ImportOperations) > 0 =>
                Len(PrologueOperations) = Len(ImportOperations)

\* Three import operations, two of them naming the same module.
C24_Witness ==
    /\ Done
    /\ Len(ImportOperations) = 3
    /\ ImportOperations[1].source = ImportOperations[3].source
    /\ ImportOperations[1].type = "ImportDeclaration"

----------------------------------------------------------------------------
(* C25: shorthand properties                                               *)

\* The properties the rewrite has made so far: the export entries after
\* the markers and the properties of the binding patterns.
EmittedProperties ==
    SelectSeq(NodesOfList(SubSeq(exports, 3, Len(exports)))
                \o NodesOfList(importAssignments),
              LAMBDA n : n.type = "Property")

\* The properties of the prologue and of the returned object.
OutputProperties ==
    SelectSeq(NodesOfList(OutPrologue) \o Nodes(OutReturn),
              LAMBDA n : n.type = "Property")

\* Key and value are identifiers with the same name and the key is not
\* computed.
SameNamedIdentifiers(property) ==
    /\ ~property.computed
    /\ property.key.type = "Identifier"
    /\ property.value.type = "Identifier"
    /\ property.key.name = property.value.name

IsExportEntry(property) ==
    \E n \in 3..Len(exports) : exports[n] = property

\* C25 as amended: every property the rewrite emits is shorthand only if it
\* is not computed and its key and value are identifiers with the same
\* name; an export entry with the key __proto__ is never shorthand (the
\* property of a binding pattern that imports __proto__ under its own name
\* is).
C25_ShorthandOnlySameIdentifier ==
    LET emitted == IF Done THEN OutputProperties ELSE EmittedProperties
    IN  \A n \in 1..Len(emitted) :
            LET property == emitted[n]
            IN  property.shorthand =>
                    /\ SameNamedIdentifiers(property)
                    /\ IsExportEntry(property) => ~NamesProto(property.key)

\* A module with a shorthand and an aliased import binding, an entry with
\* a string-literal key, entries with the key __proto__ and entries
\* reading a member of an import result has been rewritten.
C25_Witness ==
    /\ Done
    /\ \E n \in 1..Len(OutputProperties) : OutputProperties[n].shorthand
    /\ \E n \in 1..Len(OutputProperties) :
          /\ OutputProperties[n].key.type = "Literal"
          /\ OutputProperties[n].value.type = "MemberExpression"
    /\ \E n \in 1..Len(OutputProperties) :
          /\ OutputProperties[n].computed
          /\ OutputProperties[n].value.type = "Identifier"

\* C25 as stated: a property the rewrite emits is shorthand only if it is
\* not computed and its key and value are identifiers with the same name,
\* and a property with the key __proto__ is never shorthand.
C25_ProtoNeverShorthand ==
    LET emitted == IF Done THEN OutputProperties ELSE EmittedProperties
    IN  \A n \in 1..Len(emitted) :
            LET property == emitted[n]
            IN  property.shorthand =>
                    /\ SameNamedIdentifiers(property)
                    /\ ~NamesProto(property.key)

----------------------------------------------------------------------------
(* C26: the synthesized names                                              *)

\* The names the top-level declarations of the statements bind, in order,
\* each as often as it is declared.
RECURSIVE TopLevelNames(_)
TopLevelNames(statements) ==
    IF statements = <<>> THEN <<>>
    ELSE LET statement == Head(statements)
         IN  (CASE statement.type = "VariableDeclaration" ->
                        BoundNamesOfList(statement.declarations)
                [] statement.type \in {"FunctionDeclaration", "ClassDeclaration"} ->
                        <<statement.id.name>>
                [] OTHER -> <<>>)
             \o TopLevelNames(Tail(statements))

\* How often the statements declare the name at top level.
Declared(statements, name) ==
    Len(SelectSeq(TopLevelNames(statements), LAMBDA n : n = name))

\* The module has a default export of an expression.
ExportsDefaultExpression ==
    \E n \in 1..Len(input) :
        /\ input[n].type = "ExportDefaultDeclaration"
        /\ input[n].declaration.type \notin {"FunctionDeclaration", "ClassDeclaration"}

\* C26: the synthesized names are the fixed strings __default_export__ and
\* _imports whatever the module declares: a default export of an
\* expression adds one top-level declaration of __default_export__ and a
\* re-export one of _imports, so a module that declares the name itself
\* comes out with the name declared twice at top level.
C26_SynthesizedNamesCollide ==
    Done =>
        /\ Declared(ast.body, "__default_export__") =
              Declared(input, "__default_export__")
                + (IF ExportsDefaultExpression THEN 1 ELSE 0)
        /\ Declared(ast.body, "_imports") =
              Declared(input, "_imports")
                + (IF \E n \in 1..Len(input) : ReadsImportResult(input[n])
                   THEN 1 ELSE 0)

\* A module that declares __default_export__ itself and has a default
\* export of an expression has been rewritten.
C26_Witness ==
    /\ Done
    /\ Declared(input, "__default_export__") = 1
    /\ ExportsDefaultExpression


----------------------------------------------------------------------------
(* C27: the names an import declaration binds.                             *)

ToSet(names) == {names[n] : n \in 1..Len(names)}

\* The import declarations of the input that have specifiers, by their
\* position among the import operations.
BindingDeclarations ==
    {k \in 1..Len(ImportOperations) : HasBinding(ImportOperations[k])}

\* A declaration with a namespace specifier next to other specifiers.
MixesNamespace(declaration) ==
    /\ Len(declaration.specifiers) > 1
    /\ \E n \in 1..Len(declaration.specifiers) :
          declaration.specifiers[n].type = "ImportNamespaceSpecifier"

\* The binding pattern of every import declaration of the set binds the
\* local names of all specifiers of the declaration, and no other name.
BindsLocalNames(declarations) ==
    \A k \in declarations :
        ToSet(BoundNames(ProloguePattern(k))) = LocalNames(ImportOperations[k])

\* C27: for every import declaration with specifiers, the identifiers the
\* prologue binds for it are exactly the local names of all its specifiers;
\* for `import def, * as ns from 'm'` both def and ns are bound.
C27_AllLocalNamesBound == Done => BindsLocalNames(BindingDeclarations)

\* The same for the declarations that do not put a namespace specifier
\* next to other specifiers.
C27_UnmixedLocalNamesBound ==
    Done => BindsLocalNames({k \in BindingDeclarations :
                                ~MixesNamespace(ImportOperations[k])})


----------------------------------------------------------------------------
(* C28: meta properties other than import.meta.                            *)

IsNewTarget(node) ==
    node.type = "MetaProperty" /\ node.meta.name = "new"
        /\ node.property.name = "target"

\* importName.target, what convertMetaProperty makes of new.target.
IsTargetOf(node, name) ==
    /\ node.type = "MemberExpression"
    /\ ~node.computed
    /\ node.object = [type |-> "Identifier", name |-> name]
    /\ node.property = [type |-> "Identifier", name |-> "target"]

Count(nodes, Test(_)) == Len(SelectSeq(nodes, Test))

\* C28: with importName configured, a meta property whose meta object is not
\* `import` (new.target) is left unchanged: the output holds as many
\* new.target nodes as the input.
C28_NewTargetKept ==
    (Done /\ importName # "") =>
        Count(OutputNodes, IsNewTarget) = Count(InputNodes, IsNewTarget)

\* What the rewrite does instead: with importName no meta property is left
\* in the output, and each new.target of the input is importName.target.
C28_NewTargetRewritten ==
    (Done /\ importName # "") =>
        /\ Count(OutputNodes, LAMBDA node : node.type = "MetaProperty") = 0
        /\ Count(OutputNodes, LAMBDA node : IsTargetOf(node, importName))
              = Count(InputNodes, IsNewTarget)


----------------------------------------------------------------------------
(* C29: the statements between the prologue and the return, without        *)
(* importName.                                                             *)

IsPlainStatement(statement) ==
    statement.type \notin ModuleDeclarationTypes /\ ~IsUseStrict(statement)

\* The output body is the directive, the prologue if there are import
\* operations, one statement for each statement of the input that is not
\* removed, in order, and the return; nothing else.
FramesKeptStatements ==
    /\ IsUseStrict(ast.body[1])
    /\ OutPrologue # <<>> => IsPrologueStatement(ast.body[2])
    /\ Len(ast.body) = 1 + Len(OutPrologue) + Len(KeptInput) + 1
    /\ OutReturn.type = "ReturnStatement"
    /\ \A n \in 1..Len(KeptInput) :
          KeptInput[n].type \in ModuleDeclarationTypes
              => OutMiddle[n].type \in PlainDeclarationTypes

\* C29 as amended: without importName the output body is the directive, the
\* prologue, one statement per input statement that is not an import
\* declaration, an export without declaration or a 'use strict' statement,
\* in the original order, and the return.  A statement that is no module
\* declaration comes out unchanged when it holds no 'use strict' statement
\* at any depth; otherwise it is the same kind of statement with a change
\* below it.
C29_PlainStatementsKept ==
    (Done /\ importName = "") =>
        /\ FramesKeptStatements
        /\ \A n \in 1..Len(KeptInput) :
              IsPlainStatement(KeptInput[n]) =>
                  IF IsUntouched(KeptInput[n])
                  THEN OutMiddle[n] = KeptInput[n]
                  ELSE /\ OutMiddle[n].type = KeptInput[n].type
                       /\ OutMiddle[n] # KeptInput[n]
                       /\ SelectSeq(Nodes(OutMiddle[n]), IsUseStrict) = <<>>

\* Without importName, a module with an import operation, a statement
\* that holds a nested directive and a statement that holds none has been
\* processed.
C29_Witness ==
    /\ Done
    /\ importName = ""
    /\ OutPrologue # <<>>
    /\ \E n \in 1..Len(KeptInput) :
          IsPlainStatement(KeptInput[n]) /\ IsUntouched(KeptInput[n])
    /\ \E n \in 1..Len(KeptInput) :
          IsPlainStatement(KeptInput[n]) /\ ~IsUntouched(KeptInput[n])

\* C29 as stated: without importName every statement of the input that is
\* not an import declaration, an export declaration or a 'use strict'
\* statement is in the output unchanged, in the original order with the
\* declarations that replaced exports, between the prologue and the return,
\* and no other statement is inserted.
C29_PlainStatementsUnchanged ==
    (Done /\ importName = "") =>
        /\ FramesKeptStatements
        /\ \A n \in 1..Len(KeptInput) :
              IsPlainStatement(KeptInput[n]) => OutMiddle[n] = KeptInput[n]


----------------------------------------------------------------------------
(* C30: explicit exports against the keys of a bare export * from.  The    *)
(* returned object is an object literal: for a key written more than once, *)
(* by a property or by a spread, the last writer in the literal wins.      *)

\* The keys entry n of the returned object writes.
KeysOfEntry(n) ==
    IF ReturnedEntries[n].type = "SpreadElement"
    THEN SpreadKeys(ReturnedEntries[n])
    ELSE {NameOf(ReturnedEntries[n].key)}

\* The entry whose value the returned object holds under the key.
LastWriter(key) ==
    LET writers == {n \in 1..Len(ReturnedEntries) : key \in KeysOfEntry(n)}
    IN  CHOOSE n \in writers : \A m \in writers : m <= n

\* The keys the module exports explicitly: the entries that are no spread.
ExplicitKeys ==
    {NameOf(ReturnedEntries[n].key) :
        n \in {m \in 1..Len(ReturnedEntries) :
                  ReturnedEntries[m].type # "SpreadElement"}}

C30_DefaultNotOverridden ==
    Done => \A n \in 1..Len(ReturnedEntries) :
                ReturnedEntries[n].type = "SpreadElement"
                    => "default" \notin KeysOfEntry(n)

\* An explicit export is overridden only by a bare export * from that
\* comes after it in the source.
C30_OverriddenByLaterStarOnly ==
    Done => \A n \in 1..Len(ReturnedEntries) :
                (/\ ReturnedEntries[n].type # "SpreadElement"
                 /\ ReturnedEntries[LastWriter(NameOf(ReturnedEntries[n].key))].type
                       = "SpreadElement")
                => \E i, j \in 1..Len(input) :
                      /\ i < j
                      /\ input[i].type \in {"ExportNamedDeclaration",
                                            "ExportDefaultDeclaration"}
                      /\ input[j].type = "ExportAllDeclaration"
                      /\ input[j].exported = Null

====
